---- MODULE Spec2Model ----
(***************************************************************************)
(* A model of the request-processing core of the AI Query Generator:       *)
(*   - DatabaseManager's schema provider (get_schema / wait_for_schema),   *)
(*   - DatabaseManager's connection lifecycle (execute / close),           *)
(*   - QueryProcessor.process, the orchestrator of one request, with       *)
(*     TriageService.classify_query as its classifier,                     *)
(*   - AIService._clean_sql_query and AIService._render_schema,            *)
(*   - InMemoryTTLCache, QueryResult and SchemaCatalog,                    *)
(*   - the CLI commands with ApplicationContainer.lifespan,                *)
(*   - SessionManager and InteractiveSession.                              *)
(* Each component has its own specification (SpecSchema, SpecDb, SpecProc, *)
(* SpecClean, SpecRender, SpecCache, SpecResult, SpecCatalog, SpecCli,     *)
(* SpecSess) over the shared variable tuple; the variables of the other    *)
(* components stay at their initial values.  SpecOneCall runs one process  *)
(* call beside one worker thread of the executor.                          *)
(***************************************************************************)
EXTENDS Integers, Sequences, FiniteSets, TLC

(***************************************************************************)
(* Bounds of the model.                                                    *)
(***************************************************************************)
\* number of asyncio tasks calling the schema provider
NTasks == 2
\* total number of get_schema / wait_for_schema calls in one behaviour
MaxCalls == 3

Tasks == 1..NTasks

(***************************************************************************)
(* Exceptions are modelled by their class names.                           *)
(***************************************************************************)
SchemaLoadError == "SchemaLoadError"
AttributeError == "AttributeError"
NoException == "none"

(***************************************************************************)
(* The schema source on disk.  A file either does not exist, does not      *)
(* parse as JSON, parses to something that is not a dict, or parses to a   *)
(* dict of table entries; a table entry is a dict with a "columns" list or *)
(* something else (a list, a string, a number).                            *)
(***************************************************************************)
ColumnData(is_dict, name, type, field_name, description, formula) ==
    [is_dict |-> is_dict, name |-> name, type |-> type, field_name |-> field_name,
     description |-> description, formula |-> formula]

TableData(name, is_dict, columns) ==
    [name |-> name, is_dict |-> is_dict, columns |-> columns]

SchemaFile(exists, parses, top_is_dict, entries) ==
    [exists |-> exists, parses |-> parses, top_is_dict |-> top_is_dict, entries |-> entries]

SessionsColumns ==
    << ColumnData(TRUE, "user_id", "bigint", "", "", ""),
       ColumnData(FALSE, "", "", "", "", ""),
       ColumnData(TRUE, "au", "bigint", "active_users", "", "count(distinct user_id)") >>

VideosColumns ==
    << ColumnData(TRUE, "video_id", "varchar", "", "video key", "") >>

SchemaFiles ==
    { SchemaFile(FALSE, FALSE, FALSE, << >>),
      SchemaFile(TRUE, FALSE, FALSE, << >>),
      SchemaFile(TRUE, TRUE, FALSE, << >>),
      SchemaFile(TRUE, TRUE, TRUE, << TableData("sessions", FALSE, << >>) >>),
      SchemaFile(TRUE, TRUE, TRUE, << TableData("sessions", TRUE, SessionsColumns) >>),
      SchemaFile(TRUE, TRUE, TRUE, << TableData("sessions", TRUE, SessionsColumns),
                                      TableData("videos", TRUE, VideosColumns) >>) }

(***************************************************************************)
(* models.py: SchemaColumn, SchemaTable, SchemaCatalog.                    *)
(***************************************************************************)
SchemaColumn(column_data) ==
    [name |-> column_data.name, type |-> column_data.type,
     field_name |-> column_data.field_name,
     description |-> column_data.description, formula |-> column_data.formula]

SchemaTable(name, columns) == [name |-> name, columns |-> columns]

\* the columns loop of _build_catalog_from_dict: non-dict column entries are skipped
RECURSIVE BuildColumns(_)
BuildColumns(cols) ==
    IF cols = << >> THEN << >>
    ELSE IF Head(cols).is_dict
         THEN << SchemaColumn(Head(cols)) >> \o BuildColumns(Tail(cols))
         ELSE BuildColumns(Tail(cols))

\* _build_catalog_from_dict: table_data.get(...) raises AttributeError when
\* the table entry is not a dict
RECURSIVE _build_catalog_from_dict(_)
_build_catalog_from_dict(entries) ==
    IF entries = << >> THEN [exc |-> NoException, tables |-> << >>]
    ELSE IF ~Head(entries).is_dict
         THEN [exc |-> AttributeError, tables |-> << >>]
         ELSE LET rest == _build_catalog_from_dict(Tail(entries))
              IN  IF rest.exc # NoException THEN rest
                  ELSE [exc |-> NoException,
                        tables |-> << SchemaTable(Head(entries).name,
                                                  BuildColumns(Head(entries).columns)) >>
                                   \o rest.tables]

\* _load_schema_from_disk: the outcome of one load of the file
_load_schema_from_disk(file) ==
    IF ~file.exists THEN [exc |-> SchemaLoadError, tables |-> << >>]
    ELSE IF ~file.parses THEN [exc |-> SchemaLoadError, tables |-> << >>]
    ELSE IF ~file.top_is_dict THEN [exc |-> SchemaLoadError, tables |-> << >>]
    ELSE _build_catalog_from_dict(file.entries)

(***************************************************************************)
(* A catalog object: oid is the identity of the object (the number of the  *)
(* load that built it), so that "the same catalog" means the same object.  *)
(***************************************************************************)
NoCatalog == [oid |-> 0, tables |-> << >>]
None == [some |-> FALSE, val |-> NoCatalog]
Some(catalog) == [some |-> TRUE, val |-> catalog]

\* what a call has produced: nothing yet, a returned catalog, or a raised exception
Pending == [kind |-> "pending", val |-> NoCatalog, exc |-> NoException]
Returned(catalog) == [kind |-> "return", val |-> catalog, exc |-> NoException]
Raised(exc) == [kind |-> "raise", val |-> NoCatalog, exc |-> exc]


(***************************************************************************)
(* The state.                                                              *)
(***************************************************************************)
VARIABLES
    \* ---- DatabaseManager, schema provider ----
    loaded_schema,      \* self._loaded_schema: None or Some(catalog)
    schema_loaded,      \* self._schema_loaded: the asyncio.Event, set or not
    schema_load_lock,   \* self._schema_load_lock: <<>> when free, <<t>> when held by t
    lock_waiters,       \* the FIFO of tasks suspended in the lock's acquire
    spc,                \* position of every task
    sres,               \* outcome of every task's current call
    scall,              \* which operation the task's current call is
    loadCount,          \* number of _load_schema_from_disk executions started
    callCount,          \* number of calls made
    firstLoadDone,      \* the first load has completed (either way)
    firstLoadExc,       \* the exception the first load raised, if it has failed
    early,              \* the task's call was made before the first load completed
    didLoad,            \* the task's call executed _load_schema_from_disk
    earlyLoads,         \* loads executed by calls made before the first load completed
    sawFirstFail,       \* the task was waiting on the first load when it failed
    afterLoaded         \* the task's call was made after the catalog was cached

schemaVars == << loaded_schema, schema_loaded, schema_load_lock, lock_waiters, spc, sres,
                 scall, loadCount, callCount, firstLoadDone, firstLoadExc, early, didLoad,
                 earlyLoads, sawFirstFail, afterLoaded >>

VARIABLES
    \* ---- DatabaseManager, connection ----
    execute_queries,    \* config.execute_queries
    connection,         \* self._connection: <<>> for None, <<id>> for a connection
    cursor,             \* self._cursor: <<>> for None, <<id>> for the cursor of connection id
    db_lock,            \* self._lock: <<>> when free, <<th>> when held by thread th
    openConns,          \* physical connections opened and not closed
    closedCursors,      \* cursors on which close() has succeeded
    connectCount,       \* number of successful connect calls
    dbCallCount,        \* number of execute / close calls made
    tpc,                \* position of every thread
    tsql,               \* the SQL of the thread's execute call
    tres,               \* outcome of the thread's call
    tcause,             \* where the thread's call failed
    using,              \* the cursor the thread is executing or fetching on
    tsent               \* how many times the thread's call has handed its SQL to
                        \* cursor.execute

dbVars == << execute_queries, connection, cursor, db_lock, openConns, closedCursors,
             connectCount, dbCallCount, tpc, tsql, tres, tcause, using, tsent >>

VARIABLES
    \* ---- QueryProcessor ----
    max_results_display,  \* config.max_results_display
    ppc,                \* position of every request's process call
    pcategory,          \* the category the classifier returned
    psql,               \* the SQL generated for the request
    presponse,          \* the string process returned, as its lines
    pexc,               \* the exception process let through, if any
    pcalls,             \* the stages process has invoked, in order
    pfail,              \* the stage that failed and the exception it raised
    presult,            \* the QueryResult database.execute returned to process
    \* ---- TriageService ----
    triage_service,     \* self.triage_service: the repository's TriageService or
                        \* another TriageServiceProtocol implementation
    puser_query,        \* request.user_query, as its characters
    premote,            \* the remote classification call of the request:
                        \* "none", "issued", "failed" or "replied"
    preply              \* response.choices[0].message.content while classify_query
                        \* holds it: <<>> before the reply, << content >> after

procVars == << max_results_display, ppc, pcategory, psql, presponse, pexc, pcalls, pfail,
               presult, triage_service, puser_query, premote, preply >>

VARIABLES
    \* ---- AIService, the pure helpers ----
    sanitize_sql,       \* a SQL text s
    sanitize_form,      \* how the model output presents s: <<>> or << form >>
    sanitize_input,     \* the model output handed to _clean_sql_query
    sanitize_output,    \* what _clean_sql_query returned: <<>> or << text >>
    render_schema,      \* the SchemaCatalog handed to _render_schema
    render_output       \* what _render_schema returned: <<>> or << lines >>

aiVars == << sanitize_sql, sanitize_form, sanitize_input, sanitize_output, render_schema,
             render_output >>

VARIABLES
    \* ---- InMemoryTTLCache ----
    cache_default_ttl,  \* self._default_ttl: <<>> for None, << n >> for n seconds
    cache_store,        \* self._store: for every key, <<>> when the key is absent
                        \* and << entry >> when it holds the CacheEntry
    cache_now,          \* what time.time() returns
    cache_get           \* the last get call: <<>> before any, else << its key, the
                        \* entry it found, the time it ran at, what it returned >>

cacheVars == << cache_default_ttl, cache_store, cache_now, cache_get >>

VARIABLES
    \* ---- models.py: QueryResult ----
    result_sql,         \* the sql argument of the constructor
    result_rows,        \* the rows argument
    result_row_count,   \* the row_count argument: <<>> when it is not supplied
    result_cached,      \* the cached argument
    result_built,       \* the QueryResult constructed: <<>> or << result >>
    \* ---- models.py: SchemaCatalog ----
    catalog_tables,     \* self.tables: a dict from table name to SchemaTable
    catalog_lookup      \* the last get_table call: <<>> or << the tables it ran
                        \* on, its argument, what it returned >>

resultVars == << result_sql, result_rows, result_row_count, result_cached, result_built >>

catalogVars == << catalog_tables, catalog_lookup >>

VARIABLES
    \* ---- main.py and ApplicationContainer: one run of a CLI command ----
    cli_argv,           \* the command and its argument
    cli_pc,             \* position of the run
    cli_config,         \* load_config: "none" before it ran, then "loaded" or "failed"
    cli_prewarm,        \* lifespan's get_schema: "none" before it ran, "loaded",
                        \* or the exception it raised
    cli_yielded,        \* lifespan has handed the query processor to its body
    cli_held,           \* the DatabaseManager holds a connection
    cli_body,           \* how the body ended: "none" while it has not, "returned",
                        \* or the exception it raised
    cli_closes,         \* database.close() calls completed
    cli_raised,         \* the exception that left _run, if any
    cli_echo,           \* what the command printed last
    cli_exit            \* the exit code of the process: <<>> while it runs

cliVars == << cli_argv, cli_pc, cli_config, cli_prewarm, cli_yielded, cli_held, cli_body,
              cli_closes, cli_raised, cli_echo, cli_exit >>

VARIABLES
    \* ---- SessionManager and its InteractiveSessions ----
    current_session,    \* self.current_session: <<>> for None, << s >> for session s
    session_active,     \* session_active of every InteractiveSession created
    sessions_created,   \* number of InteractiveSession objects created
    sess_pc,            \* position of every task calling start_new_session
    sess_of             \* the session whose start() the task is running

sessVars == << current_session, session_active, sessions_created, sess_pc, sess_of >>

\* the parts of the application outside the request pipeline
appVars == << cacheVars, resultVars, catalogVars, cliVars, sessVars >>

vars == << schemaVars, dbVars, procVars, aiVars, appVars >>

(***************************************************************************)
(* DatabaseManager.__init__ (schema part).                                 *)
(***************************************************************************)
InitSchema ==
    /\ loaded_schema = None
    /\ schema_loaded = FALSE
    /\ schema_load_lock = << >>
    /\ lock_waiters = << >>
    /\ spc = [t \in Tasks |-> "idle"]
    /\ sres = [t \in Tasks |-> Pending]
    /\ scall = [t \in Tasks |-> "none"]
    /\ loadCount = 0
    /\ callCount = 0
    /\ firstLoadDone = FALSE
    /\ firstLoadExc = NoException
    /\ early = [t \in Tasks |-> FALSE]
    /\ didLoad = [t \in Tasks |-> FALSE]
    /\ earlyLoads = 0
    /\ sawFirstFail = [t \in Tasks |-> FALSE]
    /\ afterLoaded = [t \in Tasks |-> FALSE]

\* bookkeeping of a new call of task t
BeginCall(t, op) ==
    /\ callCount < MaxCalls
    /\ callCount' = callCount + 1
    /\ scall' = [scall EXCEPT ![t] = op]
    /\ early' = [early EXCEPT ![t] = ~firstLoadDone]
    /\ afterLoaded' = [afterLoaded EXCEPT ![t] = loaded_schema.some]
    /\ sawFirstFail' = [sawFirstFail EXCEPT ![t] = FALSE]

\* get_schema with the cache check left out: every call loads
GetSchemaLocked_NoCacheCheck(t, isEarly) ==
    /\ schema_load_lock' = << t >>
    /\ loadCount' = loadCount + 1
    /\ earlyLoads' = IF isEarly THEN earlyLoads + 1 ELSE earlyLoads
    /\ didLoad' = [didLoad EXCEPT ![t] = TRUE]
    /\ spc' = [spc EXCEPT ![t] = "gs_loading"]
    /\ sres' = [sres EXCEPT ![t] = Pending]

\* get_schema once the lock is acquired: return the cached catalog, or start
\* the load in a worker thread and stay suspended holding the lock
GetSchemaLocked(t, isEarly) ==
    IF loaded_schema.some
    THEN /\ sres' = [sres EXCEPT ![t] = Returned(loaded_schema.val)]
         /\ spc' = [spc EXCEPT ![t] = "done"]
         /\ didLoad' = [didLoad EXCEPT ![t] = FALSE]
         /\ UNCHANGED << schema_load_lock, loadCount, earlyLoads >>
    ELSE /\ schema_load_lock' = << t >>
         /\ loadCount' = loadCount + 1
         /\ earlyLoads' = IF isEarly THEN earlyLoads + 1 ELSE earlyLoads
         /\ didLoad' = [didLoad EXCEPT ![t] = TRUE]
         /\ spc' = [spc EXCEPT ![t] = "gs_loading"]
         /\ sres' = [sres EXCEPT ![t] = Pending]

\* a task calls get_schema: it takes the lock at once when it is free and
\* nobody is queued for it, and is queued otherwise
GetSchemaCall(t) ==
    /\ UNCHANGED << dbVars, procVars, aiVars, appVars >>
    /\ spc[t] = "idle"
    /\ BeginCall(t, "get_schema")
    /\ IF schema_load_lock = << >> /\ lock_waiters = << >>
       THEN /\ GetSchemaLocked(t, ~firstLoadDone)
            /\ UNCHANGED lock_waiters
       ELSE /\ lock_waiters' = Append(lock_waiters, t)
            /\ spc' = [spc EXCEPT ![t] = "gs_acquire"]
            /\ sres' = [sres EXCEPT ![t] = Pending]
            /\ didLoad' = [didLoad EXCEPT ![t] = FALSE]
            /\ UNCHANGED << schema_load_lock, loadCount, earlyLoads >>
    /\ UNCHANGED << loaded_schema, schema_loaded, firstLoadDone, firstLoadExc >>

\* the first queued task is woken when the lock has been released
GetSchemaAcquire(t) ==
    /\ UNCHANGED << dbVars, procVars, aiVars, appVars >>
    /\ spc[t] = "gs_acquire"
    /\ schema_load_lock = << >>
    /\ lock_waiters # << >> /\ Head(lock_waiters) = t
    /\ lock_waiters' = Tail(lock_waiters)
    /\ GetSchemaLocked(t, early[t])
    /\ UNCHANGED << loaded_schema, schema_loaded, scall, callCount, firstLoadDone,
                    firstLoadExc, early, sawFirstFail, afterLoaded >>

\* the worker thread finishes _load_schema_from_disk on whatever the file is
\* at that time; the rest of get_schema runs and the lock is released
GetSchemaLoadDone(t) ==
    /\ UNCHANGED << dbVars, procVars, aiVars, appVars >>
    /\ spc[t] = "gs_loading"
    /\ \E file \in SchemaFiles :
         LET loaded == _load_schema_from_disk(file)
             catalog == [oid |-> loadCount, tables |-> loaded.tables]
         IN  IF loaded.exc = NoException
             THEN /\ loaded_schema' = Some(catalog)
                  /\ schema_loaded' = TRUE
                  /\ sres' = [sres EXCEPT ![t] = Returned(catalog)]
                  /\ UNCHANGED << sawFirstFail, firstLoadExc >>
             ELSE /\ sres' = [sres EXCEPT ![t] = Raised(loaded.exc)]
                  /\ sawFirstFail' =
                        [u \in Tasks |->
                            IF ~firstLoadDone /\ spc[u] = "gs_acquire" THEN TRUE
                            ELSE sawFirstFail[u]]
                  /\ firstLoadExc' = IF firstLoadDone THEN firstLoadExc ELSE loaded.exc
                  /\ UNCHANGED << loaded_schema, schema_loaded >>
    /\ schema_load_lock' = << >>
    /\ firstLoadDone' = TRUE
    /\ spc' = [spc EXCEPT ![t] = "done"]
    /\ UNCHANGED << lock_waiters, scall, loadCount, callCount, early, didLoad, earlyLoads,
                    afterLoaded >>

\* wait_for_schema after the event wait has returned
WaitForSchemaResume(t) ==
    /\ sres' = [sres EXCEPT ![t] =
                   IF ~loaded_schema.some THEN Raised(SchemaLoadError)
                   ELSE Returned(loaded_schema.val)]
    /\ spc' = [spc EXCEPT ![t] = "done"]

\* a task calls wait_for_schema: Event.wait returns at once when the event is
\* set and suspends the task otherwise
WaitForSchemaCall(t) ==
    /\ UNCHANGED << dbVars, procVars, aiVars, appVars >>
    /\ spc[t] = "idle"
    /\ BeginCall(t, "wait_for_schema")
    /\ IF schema_loaded
       THEN WaitForSchemaResume(t)
       ELSE /\ spc' = [spc EXCEPT ![t] = "wfs_wait"]
            /\ sres' = [sres EXCEPT ![t] = Pending]
    /\ didLoad' = [didLoad EXCEPT ![t] = FALSE]
    /\ UNCHANGED << loaded_schema, schema_loaded, schema_load_lock, lock_waiters, loadCount,
                    firstLoadDone, firstLoadExc, earlyLoads >>

\* a task suspended in Event.wait is woken once the event is set
WaitForSchemaWake(t) ==
    /\ UNCHANGED << dbVars, procVars, aiVars, appVars >>
    /\ spc[t] = "wfs_wait"
    /\ schema_loaded
    /\ WaitForSchemaResume(t)
    /\ UNCHANGED << loaded_schema, schema_loaded, schema_load_lock, lock_waiters, scall,
                    loadCount, callCount, firstLoadDone, firstLoadExc, early, didLoad,
                    earlyLoads, sawFirstFail, afterLoaded >>

\* the caller has consumed the outcome; the task may call again
SchemaCallEnd(t) ==
    /\ UNCHANGED << dbVars, procVars, aiVars, appVars >>
    /\ spc[t] = "done"
    /\ callCount < MaxCalls
    /\ spc' = [spc EXCEPT ![t] = "idle"]
    /\ UNCHANGED << loaded_schema, schema_loaded, schema_load_lock, lock_waiters, sres,
                    scall, loadCount, callCount, firstLoadDone, firstLoadExc, early, didLoad,
                    earlyLoads, sawFirstFail, afterLoaded >>

NextSchema ==
    \E t \in Tasks :
        \/ GetSchemaCall(t)
        \/ GetSchemaAcquire(t)
        \/ GetSchemaLoadDone(t)
        \/ WaitForSchemaCall(t)
        \/ WaitForSchemaWake(t)
        \/ SchemaCallEnd(t)

(***************************************************************************)
(* DatabaseManager: the connection lifecycle, execute and close.           *)
(* execute and close run _execute_sync and _close_sync in worker threads   *)
(* (asyncio.to_thread), so several of them can be in progress at once.     *)
(***************************************************************************)
\* number of worker threads running _execute_sync / _close_sync
NThreads == 2
\* number of successful prestodb.dbapi.connect calls in one behaviour
MaxConnects == 2
\* total number of execute / close calls in one behaviour
MaxDbCalls == 4

DbThreads == 1..NThreads

SqlTexts == { "SELECT 1", "DROP TABLE t" }

\* the rows the engine may return: every prefix of AllRows
AllRows == << "row1", "row2" >>
RowSets == { SubSeq(AllRows, 1, n) : n \in 0..Len(AllRows) }
\* what fetchall may return in the connection model: no row or one row
FetchedRowSets == { << >>, SubSeq(AllRows, 1, 1) }

DatabaseConnectionError == "DatabaseConnectionError"
QueryExecutionError == "QueryExecutionError"
PrestoUserError == "PrestoUserError"
PrestoQueryError == "PrestoQueryError"
AssertionError == "AssertionError"
OtherException == "Exception"

\* QueryResult._default_row_count: a falsy row_count is replaced by len(rows)
_default_row_count(value, rows) == IF value # 0 THEN value ELSE Len(rows)

QueryResult(sql, rows, row_count, cached) ==
    [kind |-> "return", exc |-> NoException, sql |-> sql, rows |-> rows,
     row_count |-> _default_row_count(row_count, rows), cached |-> cached]

DbRaised(exc) ==
    [kind |-> "raise", exc |-> exc, sql |-> "", rows |-> << >>, row_count |-> 0,
     cached |-> FALSE]

DbPending ==
    [kind |-> "pending", exc |-> NoException, sql |-> "", rows |-> << >>, row_count |-> 0,
     cached |-> FALSE]

\* close returns None
DbReturnedNone ==
    [kind |-> "return", exc |-> NoException, sql |-> "", rows |-> << >>, row_count |-> 0,
     cached |-> FALSE]

\* the except clauses of _execute_sync: what an exception raised inside the
\* try block leaves the function as
ExecuteSyncExcept(exc) ==
    IF exc = PrestoUserError THEN QueryExecutionError
    ELSE IF exc = PrestoQueryError THEN QueryExecutionError
    ELSE QueryExecutionError


\* DatabaseManager.__init__ (connection part); the configuration is fixed
InitDb ==
    /\ execute_queries \in BOOLEAN
    /\ connection = << >>
    /\ cursor = << >>
    /\ db_lock = << >>
    /\ openConns = {}
    /\ closedCursors = {}
    /\ connectCount = 0
    /\ dbCallCount = 0
    /\ tpc = [th \in DbThreads |-> "idle"]
    /\ tsql = [th \in DbThreads |-> ""]
    /\ tres = [th \in DbThreads |-> DbPending]
    /\ tcause = [th \in DbThreads |-> "none"]
    /\ using = [th \in DbThreads |-> << >>]
    /\ tsent = [th \in DbThreads |-> 0]

\* a thread's call ends by raising exc out of _execute_sync's try block
ExecuteSyncRaise(th, exc, cause) ==
    /\ tres' = [tres EXCEPT ![th] = DbRaised(ExecuteSyncExcept(exc))]
    /\ tcause' = [tcause EXCEPT ![th] = cause]
    /\ tpc' = [tpc EXCEPT ![th] = "done"]
    /\ using' = [using EXCEPT ![th] = << >>]

\* execute without the execute_queries test: every call goes to the engine
ExecuteCall_IgnoresFlag(th) ==
    /\ UNCHANGED << schemaVars, procVars, aiVars, appVars >>
    /\ tsent' = [tsent EXCEPT ![th] = 0]
    /\ tpc[th] = "idle"
    /\ \E sql \in SqlTexts : tsql' = [tsql EXCEPT ![th] = sql]
    /\ tres' = [tres EXCEPT ![th] = DbPending]
    /\ tpc' = [tpc EXCEPT ![th] = "ensure"]
    /\ tcause' = [tcause EXCEPT ![th] = "none"]
    /\ dbCallCount < MaxDbCalls
    /\ dbCallCount' = dbCallCount + 1
    /\ UNCHANGED << execute_queries, connection, cursor, db_lock, openConns, closedCursors,
                    connectCount, using >>

\* execute: the preview result when execution is disabled, else _execute_sync
\* is handed to a worker thread
ExecuteCall(th) ==
    /\ UNCHANGED << schemaVars, procVars, aiVars, appVars >>
    /\ tsent' = [tsent EXCEPT ![th] = 0]
    /\ tpc[th] = "idle"
    /\ \E sql \in SqlTexts :
         /\ tsql' = [tsql EXCEPT ![th] = sql]
         /\ IF ~execute_queries
            THEN /\ tres' = [tres EXCEPT ![th] = QueryResult(sql, << >>, 0, FALSE)]
                 /\ tpc' = [tpc EXCEPT ![th] = "done"]
            ELSE /\ tres' = [tres EXCEPT ![th] = DbPending]
                 /\ tpc' = [tpc EXCEPT ![th] = "ensure"]
    /\ tcause' = [tcause EXCEPT ![th] = "none"]
    /\ dbCallCount < MaxDbCalls
    /\ dbCallCount' = dbCallCount + 1
    /\ UNCHANGED << execute_queries, connection, cursor, db_lock, openConns, closedCursors,
                    connectCount, using >>

\* _ensure_connection: with self._lock
EnsureAcquire(th) ==
    /\ UNCHANGED << schemaVars, procVars, aiVars, appVars, dbCallCount >>
    /\ UNCHANGED tsent
    /\ tpc[th] = "ensure"
    /\ db_lock = << >>
    /\ db_lock' = << th >>
    /\ tpc' = [tpc EXCEPT ![th] = "ensure_locked"]
    /\ UNCHANGED << execute_queries, connection, cursor, openConns, closedCursors,
                    connectCount, tsql, tres, tcause, using >>

\* _ensure_connection under the lock: reuse the pair when both are held, else
\* connect and create the cursor; either may raise, which leaves the function
\* as DatabaseConnectionError and _execute_sync through its except clauses
EnsureConnection(th) ==
    /\ UNCHANGED << schemaVars, procVars, aiVars, appVars, dbCallCount >>
    /\ UNCHANGED tsent
    /\ tpc[th] = "ensure_locked"
    /\ db_lock' = << >>
    /\ IF connection # << >> /\ cursor # << >>
       THEN /\ tpc' = [tpc EXCEPT ![th] = "execute"]
            /\ UNCHANGED << connection, cursor, openConns, connectCount, tres, tcause,
                            using >>
       ELSE \/ /\ ExecuteSyncRaise(th, DatabaseConnectionError, "connect")
               /\ UNCHANGED << connection, cursor, openConns, connectCount >>
            \/ /\ connectCount < MaxConnects
               /\ connectCount' = connectCount + 1
               /\ connection' = << connectCount + 1 >>
               /\ openConns' = openConns \cup { connectCount + 1 }
               /\ \/ /\ ExecuteSyncRaise(th, DatabaseConnectionError, "cursor")
                     /\ UNCHANGED cursor
                  \/ /\ cursor' = << connectCount + 1 >>
                     /\ tpc' = [tpc EXCEPT ![th] = "execute"]
                     /\ UNCHANGED << tres, tcause, using >>
    /\ UNCHANGED << execute_queries, closedCursors, tsql >>

\* assert self._cursor is not None; self._cursor.execute(sql) is started on
\* whatever self._cursor is now (no lock is held here)
CursorExecute(th) ==
    /\ UNCHANGED << schemaVars, procVars, aiVars, appVars, dbCallCount >>
    /\ tpc[th] = "execute"
    /\ IF cursor = << >>
       THEN /\ ExecuteSyncRaise(th, AssertionError, "cursor_gone")
            /\ UNCHANGED tsent
       ELSE /\ using' = [using EXCEPT ![th] = cursor]
            /\ tsent' = [tsent EXCEPT ![th] = tsent[th] + 1]
            /\ tpc' = [tpc EXCEPT ![th] = "executing"]
            /\ UNCHANGED << tres, tcause >>
    /\ UNCHANGED << execute_queries, connection, cursor, db_lock, openConns, closedCursors,
                    connectCount, tsql >>

\* _execute_sync that sends the SQL again when the engine has raised
ExecuteReturns_Retry(th) ==
    /\ UNCHANGED << schemaVars, procVars, aiVars, appVars, dbCallCount >>
    /\ UNCHANGED tsent
    /\ tpc[th] = "executing"
    /\ \/ /\ tpc' = [tpc EXCEPT ![th] = "execute"]
          /\ using' = [using EXCEPT ![th] = << >>]
          /\ UNCHANGED << tres, tcause >>
       \/ /\ cursor # << >>
          /\ tres' = [tres EXCEPT ![th] = QueryResult(tsql[th], << >>, 0, FALSE)]
          /\ tpc' = [tpc EXCEPT ![th] = "done"]
          /\ using' = [using EXCEPT ![th] = << >>]
          /\ UNCHANGED tcause
    /\ UNCHANGED << execute_queries, connection, cursor, db_lock, openConns, closedCursors,
                    connectCount, tsql >>

\* cursor.execute returns or raises; self._cursor.description is read next
\* and, when there is one, self._cursor.fetchall() is started
ExecuteReturns(th) ==
    /\ UNCHANGED << schemaVars, procVars, aiVars, appVars, dbCallCount >>
    /\ UNCHANGED tsent
    /\ tpc[th] = "executing"
    /\ \/ \E exc \in { PrestoUserError, PrestoQueryError, OtherException } :
             ExecuteSyncRaise(th, exc, "engine")
       \/ /\ cursor = << >>
          /\ ExecuteSyncRaise(th, AttributeError, "cursor_gone")
       \/ /\ cursor # << >>
          /\ tres' = [tres EXCEPT ![th] = QueryResult(tsql[th], << >>, 0, FALSE)]
          /\ tpc' = [tpc EXCEPT ![th] = "done"]
          /\ using' = [using EXCEPT ![th] = << >>]
          /\ UNCHANGED tcause
       \/ /\ cursor # << >>
          /\ using' = [using EXCEPT ![th] = cursor]
          /\ tpc' = [tpc EXCEPT ![th] = "fetching"]
          /\ UNCHANGED << tres, tcause >>
    /\ UNCHANGED << execute_queries, connection, cursor, db_lock, openConns, closedCursors,
                    connectCount, tsql >>

\* fetchall returns or raises; self._cursor.description is read again and the
\* rows are zipped into the result
FetchReturns(th) ==
    /\ UNCHANGED << schemaVars, procVars, aiVars, appVars, dbCallCount >>
    /\ UNCHANGED tsent
    /\ tpc[th] = "fetching"
    /\ \/ ExecuteSyncRaise(th, OtherException, "engine")
       \/ /\ cursor = << >>
          /\ ExecuteSyncRaise(th, AttributeError, "cursor_gone")
       \/ /\ cursor # << >>
          /\ \E rows \in FetchedRowSets :
                tres' = [tres EXCEPT ![th] = QueryResult(tsql[th], rows, Len(rows), FALSE)]
          /\ tpc' = [tpc EXCEPT ![th] = "done"]
          /\ using' = [using EXCEPT ![th] = << >>]
          /\ UNCHANGED tcause
    /\ UNCHANGED << execute_queries, connection, cursor, db_lock, openConns, closedCursors,
                    connectCount, tsql >>

\* close: _close_sync is handed to a worker thread
CloseCall(th) ==
    /\ UNCHANGED << schemaVars, procVars, aiVars, appVars >>
    /\ tsent' = [tsent EXCEPT ![th] = 0]
    /\ tpc[th] = "idle"
    /\ tpc' = [tpc EXCEPT ![th] = "close"]
    /\ tres' = [tres EXCEPT ![th] = DbPending]
    /\ tcause' = [tcause EXCEPT ![th] = "none"]
    /\ dbCallCount < MaxDbCalls
    /\ dbCallCount' = dbCallCount + 1
    /\ UNCHANGED << execute_queries, connection, cursor, db_lock, openConns, closedCursors,
                    connectCount, tsql, using >>

\* _close_sync: with self._lock
CloseAcquire(th) ==
    /\ UNCHANGED << schemaVars, procVars, aiVars, appVars, dbCallCount >>
    /\ UNCHANGED tsent
    /\ tpc[th] = "close"
    /\ db_lock = << >>
    /\ db_lock' = << th >>
    /\ tpc' = [tpc EXCEPT ![th] = "closing"]
    /\ UNCHANGED << execute_queries, connection, cursor, openConns, closedCursors,
                    connectCount, tsql, tres, tcause, using >>

\* the try block of _close_sync: cursor.close() then connection.close(); an
\* exception of the first skips the second
CloseResources(th) ==
    /\ UNCHANGED << schemaVars, procVars, aiVars, appVars, dbCallCount >>
    /\ UNCHANGED tsent
    /\ tpc[th] = "closing"
    /\ \E cursor_raises, connection_raises \in BOOLEAN :
         LET cursor_closed == cursor # << >> /\ ~cursor_raises
             reaches_connection == ~(cursor # << >> /\ cursor_raises)
             connection_closed ==
                 reaches_connection /\ connection # << >> /\ ~connection_raises
         IN  /\ closedCursors' =
                   IF cursor_closed THEN closedCursors \cup { cursor[1] } ELSE closedCursors
             /\ openConns' =
                   IF connection_closed THEN openConns \ { connection[1] } ELSE openConns
    /\ tpc' = [tpc EXCEPT ![th] = "close_finally"]
    /\ UNCHANGED << execute_queries, connection, cursor, db_lock, connectCount, tsql, tres,
                    tcause, using >>

\* _close_sync without its finally block: both references are kept
CloseFinally_KeepsPair(th) ==
    /\ UNCHANGED << schemaVars, procVars, aiVars, appVars, dbCallCount >>
    /\ UNCHANGED tsent
    /\ tpc[th] = "close_finally"
    /\ db_lock' = << >>
    /\ tres' = [tres EXCEPT ![th] = DbReturnedNone]
    /\ tpc' = [tpc EXCEPT ![th] = "done"]
    /\ UNCHANGED << execute_queries, connection, cursor, openConns, closedCursors,
                    connectCount, tsql, tcause, using >>

\* _close_sync whose finally block resets the cursor only
CloseFinally_KeepsConnection(th) ==
    /\ UNCHANGED << schemaVars, procVars, aiVars, appVars, dbCallCount >>
    /\ UNCHANGED tsent
    /\ tpc[th] = "close_finally"
    /\ cursor' = << >>
    /\ db_lock' = << >>
    /\ tres' = [tres EXCEPT ![th] = DbReturnedNone]
    /\ tpc' = [tpc EXCEPT ![th] = "done"]
    /\ UNCHANGED << execute_queries, connection, openConns, closedCursors, connectCount,
                    tsql, tcause, using >>

\* the finally block of _close_sync, and the release of the lock
CloseFinally(th) ==
    /\ UNCHANGED << schemaVars, procVars, aiVars, appVars, dbCallCount >>
    /\ UNCHANGED tsent
    /\ tpc[th] = "close_finally"
    /\ cursor' = << >>
    /\ connection' = << >>
    /\ db_lock' = << >>
    /\ tres' = [tres EXCEPT ![th] = DbReturnedNone]
    /\ tpc' = [tpc EXCEPT ![th] = "done"]
    /\ UNCHANGED << execute_queries, openConns, closedCursors, connectCount, tsql, tcause,
                    using >>

\* the caller has consumed the outcome; the thread is free for the next call
DbCallEnd(th) ==
    /\ UNCHANGED << schemaVars, procVars, aiVars, appVars, dbCallCount >>
    /\ tsent' = [tsent EXCEPT ![th] = 0]
    /\ tpc[th] = "done"
    /\ tpc' = [tpc EXCEPT ![th] = "idle"]
    /\ tres' = [tres EXCEPT ![th] = DbPending]
    /\ tcause' = [tcause EXCEPT ![th] = "none"]
    /\ tsql' = [tsql EXCEPT ![th] = ""]
    /\ UNCHANGED << execute_queries, connection, cursor, db_lock, openConns, closedCursors,
                    connectCount, using >>

\* one step of worker thread th
DbStep(th) ==
        \/ ExecuteCall(th)
        \/ EnsureAcquire(th)
        \/ EnsureConnection(th)
        \/ CursorExecute(th)
        \/ ExecuteReturns(th)
        \/ FetchReturns(th)
        \/ CloseCall(th)
        \/ CloseAcquire(th)
        \/ CloseResources(th)
        \/ CloseFinally(th)
        \/ DbCallEnd(th)

NextDb == \E th \in DbThreads : DbStep(th)


(***************************************************************************)
(* QueryProcessor.process.  The processor is written against the           *)
(* TriageServiceProtocol, AIServiceProtocol and DatabaseExecutorProtocol:  *)
(* every awaited collaborator call either returns a value or raises, and   *)
(* requests are independent tasks that interleave at the awaits.           *)
(***************************************************************************)
\* number of requests processed concurrently
NRequests == 2

Requests == 1..NRequests

\* config.max_results_display defaults to 5
DefaultMaxResultsDisplay == 5
DisplayLimits == { 1, DefaultMaxResultsDisplay }

ClassificationError == "ClassificationError"
QueryGenerationError == "QueryGenerationError"

Categories == { "DATA_QUESTION", "GENERAL_QUESTION", "GREETING", "OUT_OF_SCOPE" }
\* a TriageServiceProtocol implementation returns a str: also one outside the set
ClassifierLabels == Categories \cup { "SMALL_TALK" }

AnswerTexts == { "Hello! Ask me about video analytics." }
\* what generate_sql_query returns
GeneratedSqlTexts == { "SELECT 1" }

\* a string is modelled by its lines; a line by its text and, where the
\* source formats a number or a row into it, that number and row
Line(text, n, row) == [text |-> text, n |-> n, row |-> row]
Text(text) == Line(text, 0, "")
Blank == Text("")

RephraseFallback ==
    << Text("I could not determine how to handle that question. Please try rephrasing.") >>
OutOfScopeMessage ==
    << Text("I'm sorry, but that question is outside my current scope. I can help with video analytics data questions or information about the system.") >>
AnswerFallback ==
    << Text("I ran into an issue while answering that. Please try again shortly.") >>
SchemaLoadFallback ==
    << Text("I couldn't load the schema information required to generate SQL. Please verify the schema configuration and try again.") >>
SchemaUnexpectedFallback ==
    << Text("Something went wrong while loading the schema definition. Please try again or contact support.") >>
GenerationFallback ==
    << Text("I wasn't able to generate a valid SQL query for that question. Please revise the question or provide more detail.") >>
ConnectionFallback ==
    << Text("Unable to connect to the database right now. Please try again later.") >>
ExecutionFailedNotice ==
    Text("The query failed to execute. Please review the SQL and try again.")
UnexpectedExecutionNotice ==
    Text("An unexpected error occurred while executing the query.")
NoResultsNotice == Text("No results were returned.")

\* f"Generated SQL Query:\n\n{sql}\n\n" followed by a closing line
SqlFollowedBy(sql, line) ==
    << Text("Generated SQL Query:"), Blank, Text(sql), Blank, line >>

NoFailure == [stage |-> "none", exc |-> NoException]
Failure(stage, exc) == [stage |-> stage, exc |-> exc]

(***************************************************************************)
(* Python str where the code looks inside it: a sequence of characters.    *)
(***************************************************************************)
UpperLetters == << "A", "B", "C", "D", "E", "F", "G", "H", "I", "J", "K", "L", "M",
                 "N", "O", "P", "Q", "R", "S", "T", "U", "V", "W", "X", "Y", "Z" >>
LowerLetters == << "a", "b", "c", "d", "e", "f", "g", "h", "i", "j", "k", "l", "m",
                 "n", "o", "p", "q", "r", "s", "t", "u", "v", "w", "x", "y", "z" >>
\* the characters str.strip() removes
Whitespace == { " ", "\t", "\n", "\r" }

LetterIndex(c, letters) == CHOOSE k \in DOMAIN letters : letters[k] = c

\* str.lower()
str_lower(s) ==
    [ i \in 1..Len(s) |->
        IF \E k \in DOMAIN UpperLetters : UpperLetters[k] = s[i]
        THEN LowerLetters[LetterIndex(s[i], UpperLetters)]
        ELSE s[i] ]

\* str.upper()
str_upper(s) ==
    [ i \in 1..Len(s) |->
        IF \E k \in DOMAIN LowerLetters : LowerLetters[k] = s[i]
        THEN UpperLetters[LetterIndex(s[i], LowerLetters)]
        ELSE s[i] ]

\* str.strip()
str_strip(s) ==
    LET kept == { i \in 1..Len(s) : s[i] \notin Whitespace }
    IN  IF kept = {} THEN << >>
        ELSE SubSeq(s, CHOOSE i \in kept : \A j \in kept : i <= j,
                       CHOOSE i \in kept : \A j \in kept : i >= j)

\* str.startswith(prefix) and str.endswith(suffix)
str_startswith(s, prefix) ==
    Len(prefix) <= Len(s) /\ SubSeq(s, 1, Len(prefix)) = prefix
str_endswith(s, suffix) ==
    Len(suffix) <= Len(s) /\ SubSeq(s, Len(s) - Len(suffix) + 1, Len(s)) = suffix

\* sub in s
str_contains(sub, s) ==
    \E i \in 0..(Len(s) - Len(sub)) : SubSeq(s, i + 1, i + Len(sub)) = sub

(***************************************************************************)
(* TriageService.                                                          *)
(***************************************************************************)
GREETING_KEYWORDS ==
    { << "h", "i" >>,
      << "h", "e", "l", "l", "o" >>,
      << "h", "e", "y" >>,
      << "g", "o", "o", "d", " ", "m", "o", "r", "n", "i", "n", "g" >>,
      << "g", "o", "o", "d", " ", "a", "f", "t", "e", "r", "n", "o", "o", "n" >>,
      << "g", "o", "o", "d", " ", "e", "v", "e", "n", "i", "n", "g" >>,
      << "g", "r", "e", "e", "t", "i", "n", "g", "s" >>,
      << "y", "o" >>,
      << "h", "o", "l", "a" >>,
      << "n", "a", "m", "a", "s", "t", "e" >> }

\* the text of each label
LabelText ==
    [ category \in Categories |->
        CASE category = "DATA_QUESTION" -> << "D", "A", "T", "A", "_", "Q", "U", "E", "S", "T", "I", "O", "N" >>
          [] category = "GENERAL_QUESTION" -> << "G", "E", "N", "E", "R", "A", "L", "_",
                "Q", "U", "E", "S", "T", "I", "O", "N" >>
          [] category = "GREETING" -> << "G", "R", "E", "E", "T", "I", "N", "G" >>
          [] category = "OUT_OF_SCOPE" -> << "O", "U", "T", "_", "O", "F", "_", "S", "C", "O", "P", "E" >> ]

\* request.user_query: non-empty and trimmed; "oh HEY" and "sum"
UserQueries ==
    { << "o", "h", " ", "H", "E", "Y" >>,
      << "s", "u", "m" >> }
\* the text of the requests handed to a classifier that is not the TriageService
SomeUserQuery == << "s", "u", "m" >>

\* message.content of the classifier's reply: None or a str
Content(is_none, text) == [is_none |-> is_none, text |-> text]
ReplyContents ==
    { Content(TRUE, << >>),
      Content(FALSE, << >>),
      Content(FALSE, << "m", "a", "y", "b", "e" >>),
      Content(FALSE, << " ", "d", "a", "t", "a", "_", "q", "u", "e",
                     "s", "t", "i", "o", "n", "\n" >>),
      Content(FALSE, << "G", "r", "e", "e", "t", "i", "n", "g" >>),
      Content(FALSE, << "O", "U", "T", "_", "O", "F", "_",
                     "S", "C", "O", "P", "E", "\n" >>) }

\* what the remote call raises when it fails
RemoteExceptions == { "APIConnectionError", "RateLimitError" }
IndexError == "IndexError"

TheTriageService == "TriageService"
OtherTriageService == "TriageServiceProtocol"

\* the shortcut of classify_query with the lower() left out
is_greeting_CaseSensitive(user_query) ==
    \E keyword \in GREETING_KEYWORDS : str_contains(keyword, user_query)

\* any(keyword in lower_query for keyword in GREETING_KEYWORDS)
is_greeting(user_query) ==
    LET lower_query == str_lower(user_query)
    IN  \E keyword \in GREETING_KEYWORDS : str_contains(keyword, lower_query)

\* the except clause around the remote call that lets the exception through
ClassifyExcept_Reraise(exc) == exc

\* except Exception as exc: raise ClassificationError(str(exc)) from exc
ClassifyExcept(exc) == ClassificationError

\* (content or "")
content_or_empty(content) == IF content.is_none THEN << >> ELSE content.text

\* the label of a reply when an unexpected one is passed on as it is
classify_label_NoDefault(content) ==
    LET label == str_upper(str_strip(content_or_empty(content)))
    IN  IF \E category \in Categories : LabelText[category] = label
        THEN CHOOSE category \in Categories : LabelText[category] = label
        ELSE "UNEXPECTED"

\* the label classify_query returns for a reply: trimmed, upper-cased, and
\* DATA_QUESTION when it is not one of the four labels
classify_label(content) ==
    LET label == str_upper(str_strip(content_or_empty(content)))
    IN  IF \E category \in Categories : LabelText[category] = label
        THEN CHOOSE category \in Categories : LabelText[category] = label
        ELSE "DATA_QUESTION"

\* the row_count a result is built with: none (0), one, or more than the rows held
ReportedRowCounts == { 0, 1, Len(AllRows) + 1 }

\* rows[:k] of Python
PySlicePrefix(rows, k) ==
    IF k >= 0
    THEN SubSeq(rows, 1, IF k < Len(rows) THEN k ELSE Len(rows))
    ELSE SubSeq(rows, 1, IF Len(rows) + k > 0 THEN Len(rows) + k ELSE 0)

\* _format_success_response with the remaining count taken from the rows held
_format_success_response_RemainingFromRows(sql, result, max_display) ==
    IF result.rows = << >>
    THEN SqlFollowedBy(sql, NoResultsNotice)
    ELSE LET preview_rows == PySlicePrefix(result.rows, max_display)
             remaining == Len(result.rows) - Len(preview_rows)
         IN  << Text("Generated SQL Query:"), Blank, Text(sql), Blank,
                Line(IF result.row_count # 1 THEN "Results (n rows):" ELSE "Results (n row):",
                     result.row_count, ""),
                Blank >>
             \o [ idx \in 1..Len(preview_rows) |-> Line("idx. row", idx, preview_rows[idx]) ]
             \o (IF remaining > 0
                 THEN << Blank, Line("... and n more row(s).", remaining, "") >>
                 ELSE << >>)

\* _format_success_response without the test for an empty row list
_format_success_response_NoEmptyTest(sql, result, max_display) ==
    LET preview_rows == PySlicePrefix(result.rows, max_display)
        remaining == result.row_count - Len(preview_rows)
    IN  << Text("Generated SQL Query:"), Blank, Text(sql), Blank,
           Line(IF result.row_count # 1 THEN "Results (n rows):" ELSE "Results (n row):",
                result.row_count, ""),
           Blank >>
        \o [ idx \in 1..Len(preview_rows) |-> Line("idx. row", idx, preview_rows[idx]) ]
        \o (IF remaining > 0
            THEN << Blank, Line("... and n more row(s).", remaining, "") >>
            ELSE << >>)

\* _format_success_response
_format_success_response(sql, result, max_display) ==
    IF result.rows = << >>
    THEN SqlFollowedBy(sql, NoResultsNotice)
    ELSE LET preview_rows == PySlicePrefix(result.rows, max_display)
             remaining == result.row_count - Len(preview_rows)
         IN  << Text("Generated SQL Query:"), Blank, Text(sql), Blank,
                Line(IF result.row_count # 1 THEN "Results (n rows):" ELSE "Results (n row):",
                     result.row_count, ""),
                Blank >>
             \o [ idx \in 1..Len(preview_rows) |-> Line("idx. row", idx, preview_rows[idx]) ]
             \o (IF remaining > 0
                 THEN << Blank, Line("... and n more row(s).", remaining, "") >>
                 ELSE << >>)

\* the except clauses around database.execute with the connection clause
\* left out: a connection failure is reported like any unexpected error
ExecFailureResponse_NoConnectionClause(exc, sql) ==
    IF exc = QueryExecutionError THEN SqlFollowedBy(sql, ExecutionFailedNotice)
    ELSE SqlFollowedBy(sql, UnexpectedExecutionNotice)

\* the except clauses around database.execute in _handle_data_question
ExecFailureResponse(exc, sql) ==
    IF exc = QueryExecutionError THEN SqlFollowedBy(sql, ExecutionFailedNotice)
    ELSE IF exc = DatabaseConnectionError THEN ConnectionFallback
    ELSE SqlFollowedBy(sql, UnexpectedExecutionNotice)

\* QueryProcessor holds no per-request state; no request has been submitted
InitProc ==
    /\ max_results_display \in DisplayLimits
    /\ triage_service \in { TheTriageService, OtherTriageService }
    /\ ppc = [r \in Requests |-> "idle"]
    /\ pcategory = [r \in Requests |-> ""]
    /\ psql = [r \in Requests |-> ""]
    /\ presponse = [r \in Requests |-> << >>]
    /\ pexc = [r \in Requests |-> NoException]
    /\ pcalls = [r \in Requests |-> << >>]
    /\ pfail = [r \in Requests |-> NoFailure]
    /\ presult = [r \in Requests |-> DbPending]
    /\ puser_query = [r \in Requests |-> << >>]
    /\ premote = [r \in Requests |-> "none"]
    /\ preply = [r \in Requests |-> << >>]

\* the configuration and the wiring of the processor
procConfig == << max_results_display, triage_service >>
\* what classify_query of the TriageService works on
triageVars == << puser_query, premote, preply >>

\* process returns the string
ProcessReturn(r, response) ==
    /\ presponse' = [presponse EXCEPT ![r] = response]
    /\ ppc' = [ppc EXCEPT ![r] = "returned"]
    /\ UNCHANGED pexc

\* an exception leaves process
ProcessRaise(r, exc) ==
    /\ pexc' = [pexc EXCEPT ![r] = exc]
    /\ ppc' = [ppc EXCEPT ![r] = "raised"]
    /\ UNCHANGED presponse

\* process moves on to await the next stage
ProcessAwait(r, stage, position) ==
    /\ pcalls' = [pcalls EXCEPT ![r] = Append(@, stage)]
    /\ ppc' = [ppc EXCEPT ![r] = position]
    /\ UNCHANGED << presponse, pexc >>

\* process is called: it awaits triage_service.classify_query
ProcessCall(r) ==
    /\ UNCHANGED << schemaVars, dbVars, aiVars, appVars >>
    /\ ppc[r] = "idle"
    /\ \E user_query \in IF triage_service = TheTriageService
                          THEN UserQueries ELSE { SomeUserQuery } :
         puser_query' = [puser_query EXCEPT ![r] = user_query]
    /\ ProcessAwait(r, "classify_query", "classify")
    /\ UNCHANGED << procConfig, pcategory, psql, pfail, presult, premote, preply >>

\* classify_query has raised exc: only ClassificationError is caught
ProcessClassifyFailed(r, exc) ==
    /\ pfail' = [pfail EXCEPT ![r] = Failure("classify_query", exc)]
    /\ IF exc = ClassificationError
       THEN ProcessReturn(r, RephraseFallback)
       ELSE ProcessRaise(r, exc)
    /\ UNCHANGED << pcategory, pcalls >>

\* the routing of process with the OUT_OF_SCOPE test left out
ProcessRoute_NoScopeTest(r, category) ==
    /\ pcategory' = [pcategory EXCEPT ![r] = category]
    /\ IF category \in { "GREETING", "GENERAL_QUESTION", "OUT_OF_SCOPE" }
       THEN ProcessAwait(r, "answer_general_question", "general")
       ELSE ProcessAwait(r, "get_schema", "schema")
    /\ UNCHANGED pfail

\* classify_query has returned category: the routing of process
ProcessRoute(r, category) ==
    /\ pcategory' = [pcategory EXCEPT ![r] = category]
    /\ IF category = "OUT_OF_SCOPE"
       THEN /\ ProcessReturn(r, OutOfScopeMessage)
            /\ UNCHANGED pcalls
       ELSE IF category \in { "GREETING", "GENERAL_QUESTION" }
       THEN ProcessAwait(r, "answer_general_question", "general")
       ELSE IF category = "DATA_QUESTION"
       THEN ProcessAwait(r, "get_schema", "schema")
       ELSE ProcessAwait(r, "get_schema", "schema")
    /\ UNCHANGED pfail

\* a classifier that is not the TriageService raises
ClassifyRaises(r) ==
    /\ UNCHANGED << schemaVars, dbVars, aiVars, appVars >>
    /\ triage_service = OtherTriageService
    /\ ppc[r] = "classify"
    /\ \E exc \in { ClassificationError, OtherException } : ProcessClassifyFailed(r, exc)
    /\ UNCHANGED << procConfig, psql, presult, triageVars >>

\* a classifier that is not the TriageService returns a label
ClassifyReturns(r) ==
    /\ UNCHANGED << schemaVars, dbVars, aiVars, appVars >>
    /\ triage_service = OtherTriageService
    /\ ppc[r] = "classify"
    /\ \E category \in ClassifierLabels : ProcessRoute(r, category)
    /\ UNCHANGED << procConfig, psql, presult, triageVars >>

\* TriageService.classify_query: a greeting keyword in the lower-cased text
\* returns GREETING at once
TriageGreeting(r) ==
    /\ UNCHANGED << schemaVars, dbVars, aiVars, appVars >>
    /\ triage_service = TheTriageService
    /\ ppc[r] = "classify"
    /\ is_greeting(puser_query[r])
    /\ ProcessRoute(r, "GREETING")
    /\ UNCHANGED << procConfig, psql, presult, triageVars >>

\* TriageService.classify_query: no keyword, the remote call is issued
TriageRemoteCall(r) ==
    /\ UNCHANGED << schemaVars, dbVars, aiVars, appVars >>
    /\ triage_service = TheTriageService
    /\ ppc[r] = "classify"
    /\ ~is_greeting(puser_query[r])
    /\ premote' = [premote EXCEPT ![r] = "issued"]
    /\ ppc' = [ppc EXCEPT ![r] = "classify_remote"]
    /\ UNCHANGED << procConfig, pcategory, psql, presponse, pexc, pcalls, pfail, presult,
                    puser_query, preply >>

\* TriageService.classify_query: the remote call raises
TriageRemoteRaises(r) ==
    /\ UNCHANGED << schemaVars, dbVars, aiVars, appVars >>
    /\ ppc[r] = "classify_remote"
    /\ premote' = [premote EXCEPT ![r] = "failed"]
    /\ \E exc \in RemoteExceptions : ProcessClassifyFailed(r, ClassifyExcept(exc))
    /\ UNCHANGED << procConfig, psql, presult, puser_query, preply >>

\* TriageService.classify_query: the remote call returns a response;
\* response.choices[0] raises IndexError, outside the try, when choices is empty
TriageRemoteReplies(r) ==
    /\ UNCHANGED << schemaVars, dbVars, aiVars, appVars >>
    /\ ppc[r] = "classify_remote"
    /\ premote' = [premote EXCEPT ![r] = "replied"]
    /\ \/ /\ ProcessClassifyFailed(r, IndexError)
          /\ UNCHANGED preply
       \/ /\ \E content \in ReplyContents : preply' = [preply EXCEPT ![r] = << content >>]
          /\ ppc' = [ppc EXCEPT ![r] = "classify_reply"]
          /\ UNCHANGED << pcategory, presponse, pexc, pcalls, pfail >>
    /\ UNCHANGED << procConfig, psql, presult, puser_query >>

\* TriageService.classify_query: the reply is normalised into the label
TriageLabel(r) ==
    /\ UNCHANGED << schemaVars, dbVars, aiVars, appVars >>
    /\ ppc[r] = "classify_reply"
    /\ pcategory' = [pcategory EXCEPT ![r] = classify_label(preply[r][1])]
    /\ ppc' = [ppc EXCEPT ![r] = "classified"]
    /\ UNCHANGED << procConfig, psql, presponse, pexc, pcalls, pfail, presult,
                    triageVars >>

\* TriageService.classify_query returns the label to process, which routes it
TriageReturns(r) ==
    /\ UNCHANGED << schemaVars, dbVars, aiVars, appVars >>
    /\ ppc[r] = "classified"
    /\ ProcessRoute(r, pcategory[r])
    /\ preply' = [preply EXCEPT ![r] = << >>]
    /\ UNCHANGED << procConfig, psql, presult, puser_query, premote >>

\* _handle_general_question: answer_general_question returns or raises
AnswerReturns(r) ==
    /\ UNCHANGED << schemaVars, dbVars, aiVars, appVars >>
    /\ ppc[r] = "general"
    /\ \/ /\ \E text \in AnswerTexts : ProcessReturn(r, << Text(text) >>)
          /\ UNCHANGED pfail
       \/ \E exc \in { QueryGenerationError, OtherException } :
             /\ pfail' = [pfail EXCEPT ![r] = Failure("answer_general_question", exc)]
             /\ IF exc = QueryGenerationError
                THEN ProcessReturn(r, AnswerFallback)
                ELSE ProcessRaise(r, exc)
    /\ UNCHANGED << procConfig, pcategory, psql, pcalls, presult, triageVars >>

\* _handle_data_question: database.get_schema returns a catalog
SchemaReturns(r) ==
    /\ UNCHANGED << schemaVars, dbVars, aiVars, appVars >>
    /\ ppc[r] = "schema"
    /\ ProcessAwait(r, "generate_sql_query", "generate")
    /\ UNCHANGED << procConfig, pcategory, psql, pfail, presult, triageVars >>

\* _handle_data_question: database.get_schema raises
SchemaRaises(r) ==
    /\ UNCHANGED << schemaVars, dbVars, aiVars, appVars >>
    /\ ppc[r] = "schema"
    /\ \E exc \in { AttributeError, SchemaLoadError, OtherException } :
         /\ pfail' = [pfail EXCEPT ![r] = Failure("get_schema", exc)]
         /\ IF exc = AttributeError THEN ProcessRaise(r, QueryGenerationError)
            ELSE IF exc = SchemaLoadError THEN ProcessReturn(r, SchemaLoadFallback)
            ELSE ProcessReturn(r, SchemaUnexpectedFallback)
    /\ UNCHANGED << procConfig, pcategory, psql, pcalls, presult, triageVars >>

\* _handle_data_question: generate_sql_query returns the SQL
GenerateReturns(r) ==
    /\ UNCHANGED << schemaVars, dbVars, aiVars, appVars >>
    /\ ppc[r] = "generate"
    /\ \E sql \in GeneratedSqlTexts : psql' = [psql EXCEPT ![r] = sql]
    /\ ProcessAwait(r, "execute", "execute")
    /\ UNCHANGED << procConfig, pcategory, pfail, presult, triageVars >>

\* _handle_data_question: generate_sql_query raises; only
\* QueryGenerationError is caught
GenerateRaises(r) ==
    /\ UNCHANGED << schemaVars, dbVars, aiVars, appVars >>
    /\ ppc[r] = "generate"
    /\ \E exc \in { QueryGenerationError, OtherException } :
         /\ pfail' = [pfail EXCEPT ![r] = Failure("generate_sql_query", exc)]
         /\ IF exc = QueryGenerationError
            THEN ProcessReturn(r, GenerationFallback)
            ELSE ProcessRaise(r, exc)
    /\ UNCHANGED << procConfig, pcategory, psql, pcalls, presult, triageVars >>

\* _handle_data_question: database.execute returns a QueryResult, which is
\* formatted
ExecuteStageReturns(r) ==
    /\ UNCHANGED << schemaVars, dbVars, aiVars, appVars >>
    /\ ppc[r] = "execute"
    /\ \E rows \in RowSets, row_count \in ReportedRowCounts :
         LET result == QueryResult(psql[r], rows, row_count, FALSE)
         IN  /\ presult' = [presult EXCEPT ![r] = result]
             /\ ProcessReturn(r, _format_success_response(psql[r], result,
                                                          max_results_display))
    /\ UNCHANGED << procConfig, pcategory, psql, pcalls, pfail, triageVars >>

\* _handle_data_question: database.execute raises
ExecuteStageRaises(r) ==
    /\ UNCHANGED << schemaVars, dbVars, aiVars, appVars >>
    /\ ppc[r] = "execute"
    /\ \E exc \in { QueryExecutionError, DatabaseConnectionError, OtherException } :
         /\ pfail' = [pfail EXCEPT ![r] = Failure("execute", exc)]
         /\ ProcessReturn(r, ExecFailureResponse(exc, psql[r]))
    /\ UNCHANGED << procConfig, pcategory, psql, pcalls, presult, triageVars >>

\* one step of the process call of request r
ProcStep(r) ==
        \/ ProcessCall(r)
        \/ ClassifyRaises(r)
        \/ ClassifyReturns(r)
        \/ TriageGreeting(r)
        \/ TriageRemoteCall(r)
        \/ TriageRemoteRaises(r)
        \/ TriageRemoteReplies(r)
        \/ TriageLabel(r)
        \/ TriageReturns(r)
        \/ AnswerReturns(r)
        \/ SchemaReturns(r)
        \/ SchemaRaises(r)
        \/ GenerateReturns(r)
        \/ GenerateRaises(r)
        \/ ExecuteStageReturns(r)
        \/ ExecuteStageRaises(r)

NextProc == \E r \in Requests : ProcStep(r)

(***************************************************************************)
(* AIService._clean_sql_query, applied to model outputs that present a SQL *)
(* text s bare or inside Markdown code fences, with or without a ';'.      *)
(***************************************************************************)
\* length of the SQL texts
MaxSqlLen == 3

\* the backtick character
Backtick == "BACKTICK"

\* the characters of the SQL texts: letters, the terminator, a blank, a backtick
SqlChars == { "s", "q", "l", ";", " ", Backtick }

RECURSIVE TextsOfLength(_)
TextsOfLength(n) ==
    IF n = 0 THEN { << >> }
    ELSE { Append(t, c) : t \in TextsOfLength(n - 1), c \in SqlChars }

SqlStrings == UNION { TextsOfLength(n) : n \in 0..MaxSqlLen }

Fence == << Backtick, Backtick, Backtick >>
SqlTag == << "s", "q", "l" >>
Terminator == << ";" >>
Newline == << "\n" >>

\* how a model output presents s: inside fences or bare, the opening fence
\* tagged sql or not, the fences on lines of their own or not, and a ';'
\* after s (inside the fences) or after the closing fence
WrapForm(fenced, tagged, own_lines, terminator) ==
    [fenced |-> fenced, tagged |-> tagged, own_lines |-> own_lines,
     terminator |-> terminator]

WrapForms ==
    { WrapForm(FALSE, FALSE, FALSE, t) : t \in { "none", "inside" } }
    \cup { WrapForm(TRUE, tagged, own_lines, t) :
             tagged \in BOOLEAN, own_lines \in BOOLEAN,
             t \in { "none", "inside", "outside" } }

Wrap(form, sql) ==
    LET body == sql \o (IF form.terminator = "inside" THEN Terminator ELSE << >>)
        sep == IF form.own_lines THEN Newline ELSE << >>
    IN  IF ~form.fenced THEN body
        ELSE Fence \o (IF form.tagged THEN SqlTag ELSE << >>) \o sep \o body \o sep
             \o Fence \o (IF form.terminator = "outside" THEN Terminator ELSE << >>)

\* re.sub(r"```(sql)?", "", sql_query): leftmost matches, left to right
RECURSIVE re_sub_fence(_)
re_sub_fence(sql_query) ==
    IF sql_query = << >> THEN << >>
    ELSE IF str_startswith(sql_query, Fence)
         THEN LET rest == SubSeq(sql_query, Len(Fence) + 1, Len(sql_query))
              IN  IF str_startswith(rest, SqlTag)
                  THEN re_sub_fence(SubSeq(rest, Len(SqlTag) + 1, Len(rest)))
                  ELSE re_sub_fence(rest)
         ELSE << Head(sql_query) >> \o re_sub_fence(Tail(sql_query))

\* _clean_sql_query without the strip
_clean_sql_query_NoStrip(sql_query) ==
    LET unfenced == re_sub_fence(sql_query)
    IN  IF str_endswith(unfenced, Terminator)
        THEN SubSeq(unfenced, 1, Len(unfenced) - 1)
        ELSE unfenced

\* _clean_sql_query
_clean_sql_query(sql_query) ==
    LET unfenced == re_sub_fence(sql_query)
        stripped == str_strip(unfenced)
    IN  IF str_endswith(stripped, Terminator)
        THEN SubSeq(stripped, 1, Len(stripped) - 1)
        ELSE stripped

(***************************************************************************)
(* AIService._render_schema and _format_column; SchemaColumn.label and     *)
(* SchemaColumn.is_calculated.                                             *)
(***************************************************************************)
\* number of columns of the rendered table
MaxColumns == 2

\* an Optional[str] field that is None
Absent == "<None>"
\* bool(x) of an Optional[str]
Truthy(x) == x # Absent /\ x # ""

\* SchemaColumn.label
label(column) == IF Truthy(column.field_name) THEN column.field_name ELSE column.name

\* is_calculated that tests the formula for None only
is_calculated_NotNone(column) == column.formula # Absent

\* SchemaColumn.is_calculated
is_calculated(column) == Truthy(column.formula)

\* the columns a table of the schema may hold
RenderColumns ==
    { [name |-> "c", type |-> "bigint", field_name |-> f, description |-> d, formula |-> m] :
        f \in { Absent, "", "friendly" }, d \in { Absent, "", "about c" },
        m \in { Absent, "", "count(c)" } }

RECURSIVE ColumnLists(_)
ColumnLists(n) ==
    IF n = 0 THEN { << >> }
    ELSE { Append(cols, c) : cols \in ColumnLists(n - 1), c \in RenderColumns }

\* the catalogs rendered: a table "sessions" of up to MaxColumns columns,
\* alone or followed by the table "videos" of the schema file
RenderCatalogs ==
    { << >> }
    \cup { << SchemaTable("sessions", cols) >> \o rest :
             cols \in UNION { ColumnLists(n) : n \in 0..MaxColumns },
             rest \in { << >>, << SchemaTable("videos", BuildColumns(VideosColumns)) >> } }

\* a line of the rendered schema: its template, the table name formatted into
\* it and the column entry formatted into it
NoEntry ==
    [template |-> "", label |-> "", name |-> "", type |-> "", formula |-> "",
     description |-> << >>]
SchemaLine(template, table_name, entry) ==
    [template |-> template, table_name |-> table_name, entry |-> entry]
BlankLine == SchemaLine("", "", NoEntry)

\* _format_column: description is << d >> when " - d" is appended, else << >>
_format_column(column) ==
    LET description_part ==
            IF Truthy(column.description) THEN << column.description >> ELSE << >>
    IN  IF is_calculated(column) /\ Truthy(column.formula)
        THEN [template |-> "{label} := {formula}{description_part}",
              label |-> label(column), name |-> "", type |-> "",
              formula |-> column.formula, description |-> description_part]
        ELSE [template |-> "{label} -> {name} ({type}){description_part}",
              label |-> label(column), name |-> column.name, type |-> column.type,
              formula |-> "", description |-> description_part]

\* the entries of the columns for which keep holds, in column order
RECURSIVE Entries(_, _)
Entries(columns, calculated) ==
    IF columns = << >> THEN << >>
    ELSE (IF is_calculated(Head(columns)) = calculated
          THEN << _format_column(Head(columns)) >> ELSE << >>)
         \o Entries(Tail(columns), calculated)

\* the lines _render_schema appends for one table
RenderTable(table) ==
    LET base_columns == Entries(table.columns, FALSE)
        metrics == Entries(table.columns, TRUE)
    IN  << SchemaLine("Table: {table_name}", table.name, NoEntry) >>
        \o (IF base_columns # << >>
            THEN << SchemaLine("  Base Columns:", "", NoEntry) >>
                 \o [ i \in 1..Len(base_columns) |->
                        SchemaLine("    - {column}", "", base_columns[i]) ]
            ELSE << >>)
        \o (IF metrics # << >>
            THEN << SchemaLine("  Calculated Metrics:", "", NoEntry) >>
                 \o [ i \in 1..Len(metrics) |->
                        SchemaLine("    - {metric}", "", metrics[i]) ]
            ELSE << >>)
        \o << BlankLine >>

RECURSIVE RenderTables(_)
RenderTables(tables) ==
    IF tables = << >> THEN << >>
    ELSE RenderTable(Head(tables)) \o RenderTables(Tail(tables))

\* "\n".join(lines).strip(): the blank lines at both ends go
StripLines(lines) ==
    LET kept == { i \in 1..Len(lines) : lines[i] # BlankLine }
    IN  IF kept = {} THEN << >>
        ELSE SubSeq(lines, CHOOSE i \in kept : \A j \in kept : i <= j,
                           CHOOSE i \in kept : \A j \in kept : i >= j)

\* _render_schema
_render_schema(schema) == StripLines(RenderTables(schema))

\* no text has been sanitized and no schema rendered
InitAi ==
    /\ sanitize_sql \in SqlStrings
    /\ sanitize_form = << >>
    /\ sanitize_input = << >>
    /\ sanitize_output = << >>
    /\ render_schema \in RenderCatalogs
    /\ render_output = << >>

\* the model output presents sanitize_sql in some form and is sanitized
CleanSql ==
    /\ UNCHANGED << schemaVars, dbVars, procVars, appVars >>
    /\ \E form \in WrapForms :
         /\ sanitize_form' = << form >>
         /\ sanitize_input' = Wrap(form, sanitize_sql)
         /\ sanitize_output' = << _clean_sql_query(Wrap(form, sanitize_sql)) >>
    /\ UNCHANGED << sanitize_sql, render_schema, render_output >>

NextClean == CleanSql

\* the schema is rendered for the prompt
RenderSchema ==
    /\ UNCHANGED << schemaVars, dbVars, procVars, appVars >>
    /\ render_output = << >>
    /\ render_output' = << _render_schema(render_schema) >>
    /\ UNCHANGED << sanitize_sql, sanitize_form, sanitize_input, sanitize_output,
                    render_schema >>

NextRender == RenderSchema

(***************************************************************************)
(* utils/cache.py: CacheEntry and InMemoryTTLCache.  Every operation runs  *)
(* under self._lock, so each is one step; time passes between operations.  *)
(***************************************************************************)
\* the clock runs from 0 to MaxTime
MaxTime == 2
\* the longest time to live
MaxTtl == 1

CacheKeys == { "classify:q1", "classify:q2" }
CacheValues == { "DATA_QUESTION", "GREETING" }

\* Optional[x]: <<>> is None, << x >> is x
Optional(S) == { << >> } \cup { << x >> : x \in S }

TtlSeconds == Optional(0..MaxTtl)

CacheEntry(value, expires_at) == [value |-> value, expires_at |-> expires_at]

\* is_expired with the deadline itself still counted as alive
is_expired_AfterDeadline(entry, time) ==
    entry.expires_at # << >> /\ time > entry.expires_at[1]

\* CacheEntry.is_expired, time being what time.time() returns
is_expired(entry, time) ==
    entry.expires_at # << >> /\ time >= entry.expires_at[1]

\* _compute_expiry
_compute_expiry(ttl_seconds, time) ==
    IF ttl_seconds = << >> THEN << >> ELSE << time + ttl_seconds[1] >>

\* `ttl_seconds or self._default_ttl`: None and 0 are falsy
ttl_or_default(ttl_seconds, default_ttl) ==
    IF ttl_seconds # << >> /\ ttl_seconds[1] # 0 THEN ttl_seconds ELSE default_ttl

\* InMemoryTTLCache.__init__
InitCache ==
    /\ cache_default_ttl \in TtlSeconds
    /\ cache_store = [k \in CacheKeys |-> << >>]
    /\ cache_now = 0
    /\ cache_get = << >>

\* get(key)
CacheGet(key) ==
    /\ UNCHANGED << schemaVars, dbVars, procVars, aiVars, resultVars, catalogVars, cliVars, sessVars >>
    /\ LET entry == cache_store[key]
           returned(value) == << [key |-> key, entry |-> entry, time |-> cache_now,
                                  value |-> value] >>
       IN  IF entry = << >>
           THEN /\ cache_get' = returned(<< >>)
                /\ UNCHANGED cache_store
           ELSE IF is_expired(entry[1], cache_now)
                THEN /\ cache_store' = [cache_store EXCEPT ![key] = << >>]
                     /\ cache_get' = returned(<< >>)
                ELSE /\ cache_get' = returned(<< entry[1].value >>)
                     /\ UNCHANGED cache_store
    /\ UNCHANGED << cache_default_ttl, cache_now >>

\* set(key, value, ttl_seconds)
CacheSet(key, value, ttl_seconds) ==
    /\ UNCHANGED << schemaVars, dbVars, procVars, aiVars, resultVars, catalogVars, cliVars, sessVars >>
    /\ LET expires_at == _compute_expiry(ttl_or_default(ttl_seconds, cache_default_ttl),
                                         cache_now)
       IN  cache_store' = [cache_store EXCEPT ![key] = << CacheEntry(value, expires_at) >>]
    /\ UNCHANGED << cache_default_ttl, cache_now, cache_get >>

\* delete(key)
CacheDelete(key) ==
    /\ UNCHANGED << schemaVars, dbVars, procVars, aiVars, resultVars, catalogVars, cliVars, sessVars >>
    /\ cache_store' = [cache_store EXCEPT ![key] = << >>]
    /\ UNCHANGED << cache_default_ttl, cache_now, cache_get >>

\* clear()
CacheClear ==
    /\ UNCHANGED << schemaVars, dbVars, procVars, aiVars, resultVars, catalogVars, cliVars, sessVars >>
    /\ cache_store' = [k \in CacheKeys |-> << >>]
    /\ UNCHANGED << cache_default_ttl, cache_now, cache_get >>

\* time passes; nothing in the cache runs
CacheTick ==
    /\ UNCHANGED << schemaVars, dbVars, procVars, aiVars, resultVars, catalogVars, cliVars, sessVars >>
    /\ cache_now < MaxTime
    /\ cache_now' = cache_now + 1
    /\ UNCHANGED << cache_default_ttl, cache_store, cache_get >>

NextCache ==
    \/ \E key \in CacheKeys : CacheGet(key)
    \/ \E key \in CacheKeys, value \in CacheValues, ttl_seconds \in TtlSeconds :
          CacheSet(key, value, ttl_seconds)
    \/ \E key \in CacheKeys : CacheDelete(key)
    \/ CacheClear
    \/ CacheTick

(***************************************************************************)
(* models.py: the construction of a QueryResult.                           *)
(***************************************************************************)
\* the largest row_count handed to the constructor
MaxRowCount == 3

\* `row_count: int = 0`
DefaultRowCount == 0

\* no QueryResult has been constructed; the arguments are chosen
InitResult ==
    /\ result_sql \in SqlTexts
    /\ result_rows \in RowSets
    /\ result_row_count \in Optional(0..MaxRowCount)
    /\ result_cached \in BOOLEAN
    /\ result_built = << >>

\* QueryResult(sql=..., rows=..., cached=...) with or without row_count=...
BuildQueryResult ==
    /\ UNCHANGED << schemaVars, dbVars, procVars, aiVars, cacheVars, catalogVars, cliVars, sessVars >>
    /\ result_built = << >>
    /\ LET row_count == IF result_row_count = << >> THEN DefaultRowCount
                        ELSE result_row_count[1]
       IN  result_built' = << QueryResult(result_sql, result_rows, row_count,
                                          result_cached) >>
    /\ UNCHANGED << result_sql, result_rows, result_row_count, result_cached >>

NextResult == BuildQueryResult

(***************************************************************************)
(* models.py: SchemaCatalog.add_table and SchemaCatalog.get_table.  Table  *)
(* names are sequences of characters.                                      *)
(***************************************************************************)
\* the number of add_table calls
MaxTables == 2

\* the names "ab" and "c" in every letter case
TableNames ==
    { << "a", "b" >>, << "A", "b" >>, << "a", "B" >>, << "A", "B" >>, << "c" >>, << "C" >> }

\* the empty dict
EmptyDict == [k \in { } |-> SchemaTable(<< >>, << >>)]

\* dict.get(key): None or the value
dict_get(dict, key) == IF key \in DOMAIN dict THEN << dict[key] >> ELSE << >>

\* self.tables[table.name] = table
add_table(tables, table) ==
    [k \in DOMAIN tables \cup { table.name } |->
        IF k = table.name THEN table ELSE tables[k]]

\* self.tables.get(name) or self.tables.get(name.lower())
get_table(tables, name) ==
    IF dict_get(tables, name) # << >> THEN dict_get(tables, name)
    ELSE dict_get(tables, str_lower(name))

\* SchemaCatalog()
InitCatalog ==
    /\ catalog_tables = EmptyDict
    /\ catalog_lookup = << >>

\* catalog.add_table(SchemaTable(name=name, columns=[]))
AddTable(name) ==
    /\ UNCHANGED << schemaVars, dbVars, procVars, aiVars, cacheVars, resultVars, cliVars, sessVars >>
    /\ Cardinality(DOMAIN catalog_tables) < MaxTables
    /\ catalog_tables' = add_table(catalog_tables, SchemaTable(name, << >>))
    /\ UNCHANGED catalog_lookup

\* catalog.get_table(name)
GetTable(name) ==
    /\ UNCHANGED << schemaVars, dbVars, procVars, aiVars, cacheVars, resultVars, cliVars, sessVars >>
    /\ catalog_lookup' = << [tables |-> catalog_tables, name |-> name,
                             table |-> get_table(catalog_tables, name)] >>
    /\ UNCHANGED catalog_tables

NextCatalog ==
    \E name \in TableNames :
        \/ AddTable(name)
        \/ GetTable(name)

(***************************************************************************)
(* main.py: one run of a CLI command, with ApplicationContainer.lifespan   *)
(* and ApplicationContainer.shutdown.  The collaborators are taken at      *)
(* their outcomes: load_config loads or raises ConfigurationError,         *)
(* get_schema returns or raises what _load_schema_from_disk raises,        *)
(* process returns or raises, the session returns or is interrupted.       *)
(***************************************************************************)
ConfigurationError == "ConfigurationError"
KeyboardInterrupt == "KeyboardInterrupt"
ValidationError == "ValidationError"
OSError == "OSError"

\* the command lines: the command and, for query, its text
CommandLines ==
    { << "interactive" >>, << "health" >>, << "query", " " >>,
      << "query", "how many sessions" >> }

\* what get_schema may end with: "loaded" or the exception of the load
SchemaOutcomes ==
    { LET loaded == _load_schema_from_disk(file)
      IN  IF loaded.exc = NoException THEN "loaded" ELSE loaded.exc : file \in SchemaFiles }

\* the exceptions process lets through
ProcessExceptions == { IndexError, AttributeError, QueryGenerationError }

\* how the body of `async with container.lifespan()` may end, per command
BodyOutcomes(argv) ==
    IF argv[1] = "interactive" THEN { "returned", KeyboardInterrupt }
    ELSE IF argv[2] = " " THEN { ValidationError }
    ELSE { "returned", KeyboardInterrupt } \cup ProcessExceptions

\* the except clause of lifespan with the failure of the pre-warm let through
LifespanExcept_Reraise(exc) == exc

\* `except Exception: pass` of lifespan: the exception that goes on
LifespanExcept(exc) == NoException

\* the try statement around asyncio.run(_run()) of a command: what is printed
\* and the exit code; an exception no clause catches ends the process with
\* a traceback and exit code 1
CommandExcept(command, exc) ==
    IF exc = NoException THEN [echo |-> "output", code |-> 0]
    ELSE IF exc = ConfigurationError THEN [echo |-> "Configuration error", code |-> 1]
    ELSE IF command \in { "interactive", "query" }
         THEN IF exc = KeyboardInterrupt THEN [echo |-> "Interrupted.", code |-> 0]
              ELSE [echo |-> "Traceback", code |-> 1]
         ELSE [echo |-> "Health check failed", code |-> 1]

\* the process has started
InitCli ==
    /\ cli_argv \in CommandLines
    /\ cli_pc = "load_config"
    /\ cli_config = "none"
    /\ cli_prewarm = "none"
    /\ cli_yielded = FALSE
    /\ cli_held = FALSE
    /\ cli_body = "none"
    /\ cli_closes = 0
    /\ cli_raised = NoException
    /\ cli_echo = "none"
    /\ cli_exit = << >>

\* an exception leaves _run
CliRaise(exc) ==
    /\ cli_raised' = exc
    /\ cli_pc' = "left_run"

\* config = load_config()
CliLoadConfig ==
    /\ UNCHANGED << schemaVars, dbVars, procVars, aiVars, cacheVars, resultVars, catalogVars, sessVars >>
    /\ cli_pc = "load_config"
    /\ \/ /\ cli_config' = "loaded"
          /\ cli_pc' = "configure_logging"
          /\ UNCHANGED cli_raised
       \/ /\ cli_config' = "failed"
          /\ CliRaise(ConfigurationError)
    /\ UNCHANGED << cli_argv, cli_prewarm, cli_yielded, cli_held, cli_body, cli_closes,
                    cli_echo, cli_exit >>

\* configure_logging(config) and ApplicationContainer(config): the log file
\* opens or not
CliConfigureLogging ==
    /\ UNCHANGED << schemaVars, dbVars, procVars, aiVars, cacheVars, resultVars, catalogVars, sessVars >>
    /\ cli_pc = "configure_logging"
    /\ \/ /\ cli_pc' = IF cli_argv[1] = "health" THEN "health_probe" ELSE "prewarm"
          /\ UNCHANGED cli_raised
       \/ CliRaise(OSError)
    /\ UNCHANGED << cli_argv, cli_config, cli_prewarm, cli_yielded, cli_held, cli_body,
                    cli_closes, cli_echo, cli_exit >>

\* lifespan: the first try statement, await self._database.get_schema()
LifespanPrewarm ==
    /\ UNCHANGED << schemaVars, dbVars, procVars, aiVars, cacheVars, resultVars, catalogVars, sessVars >>
    /\ cli_pc = "prewarm"
    /\ \E outcome \in SchemaOutcomes :
         /\ cli_prewarm' = outcome
         /\ LET exc == IF outcome = "loaded" THEN NoException ELSE LifespanExcept(outcome)
            IN  IF exc = NoException
                THEN cli_pc' = "yield" /\ UNCHANGED cli_raised
                ELSE CliRaise(exc)
    /\ UNCHANGED << cli_argv, cli_config, cli_yielded, cli_held, cli_body, cli_closes,
                    cli_echo, cli_exit >>

\* lifespan: yield self._query_processor
LifespanYield ==
    /\ UNCHANGED << schemaVars, dbVars, procVars, aiVars, cacheVars, resultVars, catalogVars, sessVars >>
    /\ cli_pc = "yield"
    /\ cli_yielded' = TRUE
    /\ cli_pc' = "body"
    /\ UNCHANGED << cli_argv, cli_config, cli_prewarm, cli_held, cli_body, cli_closes,
                    cli_raised, cli_echo, cli_exit >>

\* the body of the async with: the session, or QueryRequest and process; it
\* may have opened the connection
CliBody ==
    /\ UNCHANGED << schemaVars, dbVars, procVars, aiVars, cacheVars, resultVars, catalogVars, sessVars >>
    /\ cli_pc = "body"
    /\ \E outcome \in BodyOutcomes(cli_argv) : cli_body' = outcome
    /\ IF cli_body' = ValidationError THEN UNCHANGED cli_held ELSE cli_held' \in BOOLEAN
    /\ cli_pc' = "shutdown"
    /\ UNCHANGED << cli_argv, cli_config, cli_prewarm, cli_yielded, cli_closes, cli_raised,
                    cli_echo, cli_exit >>

\* health: schema = await container.database.get_schema()
HealthProbe ==
    /\ UNCHANGED << schemaVars, dbVars, procVars, aiVars, cacheVars, resultVars, catalogVars, sessVars >>
    /\ cli_pc = "health_probe"
    /\ \E outcome \in SchemaOutcomes :
         cli_body' = IF outcome = "loaded" THEN "returned" ELSE outcome
    /\ cli_pc' = "shutdown"
    /\ UNCHANGED << cli_argv, cli_config, cli_prewarm, cli_yielded, cli_held, cli_closes,
                    cli_raised, cli_echo, cli_exit >>

\* the finally clause of lifespan and of health: await shutdown(), which is
\* database.close(); then the body's exception, if any, goes on
Shutdown ==
    /\ UNCHANGED << schemaVars, dbVars, procVars, aiVars, cacheVars, resultVars, catalogVars, sessVars >>
    /\ cli_pc = "shutdown"
    /\ cli_held' = FALSE
    /\ cli_closes' = cli_closes + 1
    /\ IF cli_body = "returned"
       THEN cli_pc' = "left_run" /\ UNCHANGED cli_raised
       ELSE CliRaise(cli_body)
    /\ UNCHANGED << cli_argv, cli_config, cli_prewarm, cli_yielded, cli_body, cli_echo,
                    cli_exit >>

\* the try statement of the command around asyncio.run(_run())
CliExit ==
    /\ UNCHANGED << schemaVars, dbVars, procVars, aiVars, cacheVars, resultVars, catalogVars, sessVars >>
    /\ cli_pc = "left_run"
    /\ LET end == CommandExcept(cli_argv[1], cli_raised)
       IN  /\ cli_echo' = end.echo
           /\ cli_exit' = << end.code >>
    /\ cli_pc' = "exited"
    /\ UNCHANGED << cli_argv, cli_config, cli_prewarm, cli_yielded, cli_held, cli_body,
                    cli_closes, cli_raised >>

NextCli ==
    \/ CliLoadConfig
    \/ CliConfigureLogging
    \/ LifespanPrewarm
    \/ LifespanYield
    \/ CliBody
    \/ HealthProbe
    \/ Shutdown
    \/ CliExit

(***************************************************************************)
(* interactive_session.py: SessionManager and InteractiveSession.  The     *)
(* callers of start_new_session are asyncio tasks; a task runs until it    *)
(* awaits (the user's input, process, the continue prompt), so every step  *)
(* below goes from one await to the next.                                  *)
(***************************************************************************)
\* number of tasks calling start_new_session
NSessionTasks == 2
\* number of InteractiveSession objects created in one behaviour
MaxSessions == 3

SessionTasks == 1..NSessionTasks
Sessions == 1..MaxSessions

\* the positions at which a task is inside the while loop of start()
InLoop == { "input", "process", "prompt" }

\* SessionManager.__init__
InitSess ==
    /\ current_session = << >>
    /\ session_active = [s \in Sessions |-> FALSE]
    /\ sessions_created = 0
    /\ sess_pc = [t \in SessionTasks |-> "idle"]
    /\ sess_of = [t \in SessionTasks |-> 0]

\* InteractiveSession.stop on the current session, if there is one
stop_current_session(active) ==
    IF current_session # << >>
    THEN [active EXCEPT ![current_session[1]] = FALSE]
    ELSE active

\* SessionManager.stop_current_session called by the application
StopCurrentSession ==
    /\ UNCHANGED << schemaVars, dbVars, procVars, aiVars, cacheVars, resultVars,
                    catalogVars, cliVars >>
    /\ current_session # << >>
    /\ session_active' = stop_current_session(session_active)
    /\ current_session' = << >>
    /\ UNCHANGED << sessions_created, sess_pc, sess_of >>

\* start_new_session up to the first await of start(): the old session is
\* stopped if it is active, the new one recorded and its loop entered
StartNewSession(t) ==
    /\ UNCHANGED << schemaVars, dbVars, procVars, aiVars, cacheVars, resultVars,
                    catalogVars, cliVars >>
    /\ sess_pc[t] = "idle"
    /\ sessions_created < MaxSessions
    /\ LET new == sessions_created + 1
           stopped == IF current_session # << >> /\ session_active[current_session[1]]
                      THEN stop_current_session(session_active)
                      ELSE session_active
       IN  /\ sessions_created' = new
           /\ session_active' = [stopped EXCEPT ![new] = TRUE]
           /\ current_session' = << new >>
           /\ sess_of' = [sess_of EXCEPT ![t] = new]
           /\ sess_pc' = [sess_pc EXCEPT ![t] = "input"]

\* the top of `while self.session_active`: the next await of the loop, or the
\* end of start() and the finally clause of start_new_session
LoopTop(t, active) ==
    IF active[sess_of[t]]
    THEN /\ sess_pc' = [sess_pc EXCEPT ![t] = "input"]
         /\ UNCHANGED current_session
    ELSE /\ sess_pc' = [sess_pc EXCEPT ![t] = "idle"]
         /\ current_session' = << >>

\* break: the end of start() and the finally clause of start_new_session
LoopBreak(t) ==
    /\ session_active' = [session_active EXCEPT ![sess_of[t]] = FALSE]
    /\ sess_pc' = [sess_pc EXCEPT ![t] = "idle"]
    /\ current_session' = << >>

\* _get_user_input returns: nothing, an exit word, or a question, for which
\* process is called
SessionInput(t) ==
    /\ UNCHANGED << schemaVars, dbVars, procVars, aiVars, cacheVars, resultVars,
                    catalogVars, cliVars >>
    /\ sess_pc[t] = "input"
    /\ \/ LoopTop(t, session_active) /\ UNCHANGED session_active
       \/ LoopBreak(t)
       \/ /\ sess_pc' = [sess_pc EXCEPT ![t] = "process"]
          /\ UNCHANGED << current_session, session_active >>
    /\ UNCHANGED << sessions_created, sess_of >>

\* process returns and the response is printed
SessionProcessReturns(t) ==
    /\ UNCHANGED << schemaVars, dbVars, procVars, aiVars, cacheVars, resultVars,
                    catalogVars, cliVars >>
    /\ sess_pc[t] = "process"
    /\ LoopTop(t, session_active)
    /\ UNCHANGED << session_active, sessions_created, sess_of >>

\* process raises: KeyboardInterrupt and EOFError end the session, any other
\* Exception leads to the continue prompt
SessionProcessRaises(t) ==
    /\ UNCHANGED << schemaVars, dbVars, procVars, aiVars, cacheVars, resultVars,
                    catalogVars, cliVars >>
    /\ sess_pc[t] = "process"
    /\ \/ LoopBreak(t)
       \/ /\ sess_pc' = [sess_pc EXCEPT ![t] = "prompt"]
          /\ UNCHANGED << current_session, session_active >>
    /\ UNCHANGED << sessions_created, sess_of >>

\* _prompt_continue returns true or false
SessionPromptAnswer(t) ==
    /\ UNCHANGED << schemaVars, dbVars, procVars, aiVars, cacheVars, resultVars,
                    catalogVars, cliVars >>
    /\ sess_pc[t] = "prompt"
    /\ \E continue \in BOOLEAN :
         LET active == IF continue THEN session_active
                       ELSE [session_active EXCEPT ![sess_of[t]] = FALSE]
         IN  /\ session_active' = active
             /\ LoopTop(t, active)
    /\ UNCHANGED << sessions_created, sess_of >>

\* SessionManager.is_session_active
is_session_active ==
    current_session # << >> /\ session_active[current_session[1]]

NextSess ==
    \/ StopCurrentSession
    \/ \E t \in SessionTasks :
          \/ StartNewSession(t)
          \/ SessionInput(t)
          \/ SessionProcessReturns(t)
          \/ SessionProcessRaises(t)
          \/ SessionPromptAnswer(t)

(***************************************************************************)
(* The specifications.                                                     *)
(***************************************************************************)
\* the state after construction, for any configuration
Init ==
    /\ InitSchema /\ InitDb /\ InitProc /\ InitAi
    /\ InitCache /\ InitResult /\ InitCatalog /\ InitCli /\ InitSess

\* the composition of the components
Next ==
    \/ NextSchema \/ NextDb \/ NextProc \/ NextClean \/ NextRender
    \/ NextCache \/ NextResult \/ NextCatalog \/ NextCli \/ NextSess

Spec == Init /\ [][Next]_vars

\* one input of the pure helpers, for the specifications in which they play
\* no part
InitOfAi == sanitize_sql = << >> /\ render_schema = << >>

\* the default configuration and wiring, for the specifications in which the
\* processor plays no part
InitOfConfig ==
    /\ max_results_display = DefaultMaxResultsDisplay
    /\ triage_service = TheTriageService

\* one cache, for the specifications in which the cache plays no part
InitOfNoCache == cache_default_ttl = << >>

\* the request pipeline at rest, for the specifications of the other parts
InitOfNoPipeline == InitOfAi /\ InitOfConfig /\ execute_queries = TRUE

\* one QueryResult, for the specifications in which its construction plays no
\* part
InitOfNoResult ==
    /\ result_sql = "SELECT 1"
    /\ result_rows = << >>
    /\ result_row_count = << >>
    /\ result_cached = FALSE

\* one command line, for the specifications in which the CLI plays no part
InitOfNoCli == cli_argv = << "health" >>

\* the other parts at rest, for the specifications of the request pipeline
InitOfNoApp == InitOfNoCache /\ InitOfNoResult /\ InitOfNoCli

\* the schema provider alone (the configuration plays no part in it)
InitOfSchema == InitOfAi /\ InitOfConfig /\ InitOfNoApp /\ execute_queries = TRUE /\ Init

SpecSchema == InitOfSchema /\ [][NextSchema]_vars

\* the connection lifecycle alone, with execution enabled or disabled
InitOfDb == InitOfAi /\ InitOfConfig /\ InitOfNoApp /\ Init

SpecDb == InitOfDb /\ [][NextDb]_vars

\* the processor alone, wired with the TriageService or with any other
\* classifier, against the protocols of its other collaborators, for every
\* display limit
InitOfProc == InitOfAi /\ InitOfNoApp /\ execute_queries = TRUE /\ Init

SpecProc == InitOfProc /\ [][NextProc]_vars

\* one process call and one worker thread of the executor side by side, for
\* either classifier, with execution enabled or disabled
InitOfOneCall ==
    InitOfAi /\ InitOfNoApp /\ max_results_display = DefaultMaxResultsDisplay /\ Init

NextOneCall == ProcStep(1) \/ DbStep(1)

SpecOneCall == InitOfOneCall /\ [][NextOneCall]_vars

\* _clean_sql_query alone, for every SQL text and every presentation of it
InitOfClean ==
    render_schema = << >> /\ InitOfConfig /\ InitOfNoApp /\ execute_queries = TRUE /\ Init

SpecClean == InitOfClean /\ [][NextClean]_vars

\* _render_schema alone, for every catalog
InitOfRender ==
    sanitize_sql = << >> /\ InitOfConfig /\ InitOfNoApp /\ execute_queries = TRUE /\ Init

SpecRender == InitOfRender /\ [][NextRender]_vars

\* the TTL cache alone, for every default time to live
InitOfCache == InitOfNoPipeline /\ InitOfNoResult /\ InitOfNoCli /\ Init

SpecCache == InitOfCache /\ [][NextCache]_vars

\* the construction of a QueryResult alone, for every choice of arguments
InitOfResult == InitOfNoPipeline /\ InitOfNoCache /\ InitOfNoCli /\ Init

SpecResult == InitOfResult /\ [][NextResult]_vars

\* a SchemaCatalog alone
InitOfCatalog == InitOfNoPipeline /\ InitOfNoApp /\ Init

SpecCatalog == InitOfCatalog /\ [][NextCatalog]_vars

\* one run of each CLI command
InitOfCli == InitOfNoPipeline /\ InitOfNoCache /\ InitOfNoResult /\ Init

SpecCli == InitOfCli /\ [][NextCli]_vars

\* the SessionManager alone
InitOfSess == InitOfNoPipeline /\ InitOfNoApp /\ Init

SpecSess == InitOfSess /\ [][NextSess]_vars

(***************************************************************************)
(* Claims about the schema provider (checked under SpecSchema).            *)
(***************************************************************************)

\* C3: when several callers invoke get_schema before the first load has
\* completed, exactly one _load_schema_from_disk is executed for them and
\* each of them receives the identical catalog object.
C3_OneLoadForConcurrentCallers ==
    /\ earlyLoads <= 1
    /\ \A t, u \in Tasks :
          ( /\ scall[t] = "get_schema" /\ early[t] /\ spc[t] = "done"
            /\ scall[u] = "get_schema" /\ early[u] /\ spc[u] = "done"
            /\ sres[t].kind = "return" /\ sres[u].kind = "return" )
             => sres[u].val = sres[t].val

\* C4: a caller that was waiting on the first load when it failed receives
\* that same failure and triggers no further load.
C4_FailureSharedWithWaiters ==
    \A t \in Tasks :
        sawFirstFail[t]
           => /\ ~didLoad[t]
              /\ spc[t] = "done" => sres[t] = Raised(firstLoadExc)

\* C8 (state part): a get_schema call made after the catalog was cached
\* performs no load and returns the cached catalog object.
LaterCallsReturnCached ==
    \A t \in Tasks :
        (scall[t] = "get_schema" /\ afterLoaded[t])
           => /\ ~didLoad[t]
              /\ spc[t] = "done" => sres[t] = Returned(loaded_schema.val)

\* C8 (step part): once _loaded_schema holds a catalog, no step changes it
\* and no step starts a load.
CachedCatalogFrozen ==
    loaded_schema.some => (loaded_schema' = loaded_schema /\ loadCount' = loadCount)

\* C8: the cached catalog is written exactly once, by the first successful
\* load; afterwards _loaded_schema never changes and every later get_schema
\* call returns that same catalog without performing a load.
C8_CatalogWrittenOnce ==
    /\ [][CachedCatalogFrozen]_vars
    /\ [](loaded_schema.some => loaded_schema.val.oid >= 1 /\ schema_loaded)
    /\ []LaterCallsReturnCached

\* C8 witness: a failed load came first, a later load cached the catalog,
\* and a call made after that has returned the cached object.
C8_Witness ==
    /\ loaded_schema.some
    /\ loaded_schema.val.oid >= 2
    /\ \E t \in Tasks :
          /\ scall[t] = "get_schema" /\ afterLoaded[t] /\ spc[t] = "done"
          /\ sres[t] = Returned(loaded_schema.val)

\* C9: wait_for_schema does not block when no load was ever initiated: no
\* task is suspended in wait_for_schema while no load has been started.
C9_WaitFailsWithoutLoad ==
    \A t \in Tasks : spc[t] = "wfs_wait" => loadCount >= 1

(***************************************************************************)
(* Claims about the connection lifecycle (checked under SpecDb).           *)
(***************************************************************************)
Busy(th) == tpc[th] \in { "executing", "fetching" }
InClose(th) == tpc[th] \in { "closing", "close_finally" }

\* C5: while one call is executing SQL or fetching rows on the cursor, no
\* other call is executing or fetching on that cursor and no close call is
\* releasing the connection/cursor pair.
C5_ExclusiveCursorUse ==
    \A a, b \in DbThreads :
        (a # b /\ Busy(a)) => /\ ~(Busy(b) /\ using[b] = using[a])
                              /\ ~InClose(b)

\* C6: an execute call in which establishing the connection failed ends with
\* DatabaseConnectionError; one that failed in the engine or by any other
\* fault ends with QueryExecutionError.
C6_ConnectFailureIsConnectionError ==
    \A th \in DbThreads :
        (tpc[th] = "done" /\ tres[th].kind = "raise")
           => /\ tcause[th] \in { "connect", "cursor" }
                    => tres[th].exc = DatabaseConnectionError
              /\ tcause[th] \in { "engine", "cursor_gone" }
                    => tres[th].exc = QueryExecutionError

\* C10: after any sequence of execute and close calls at most one physical
\* connection is opened and not closed.
C10_AtMostOneOpenConnection ==
    Cardinality(openConns) <= 1

(***************************************************************************)
(* Claims about QueryProcessor.process (checked under SpecProc).           *)
(***************************************************************************)
DataPathStages == << "classify_query", "get_schema", "generate_sql_query", "execute" >>

Invoked(r, stage) == \E i \in 1..Len(pcalls[r]) : pcalls[r][i] = stage

\* C1: whatever each stage returns or raises, process ends by returning a
\* string: no exception leaves process.
C1_ProcessNeverRaises ==
    \A r \in Requests : ppc[r] # "raised"

\* C2: on the data path the stages are invoked in the order get_schema,
\* generate_sql_query, execute; when get_schema fails neither generation nor
\* execution is invoked and a schema fallback is returned; when generation
\* fails execution is not invoked.
C2_DataPathShortCircuits ==
    \A r \in Requests :
        /\ Invoked(r, "get_schema") => pcalls[r] = SubSeq(DataPathStages, 1, Len(pcalls[r]))
        /\ pfail[r].stage = "get_schema"
              => /\ ~Invoked(r, "generate_sql_query") /\ ~Invoked(r, "execute")
                 /\ ppc[r] = "returned"
                 /\ presponse[r] \in { SchemaLoadFallback, SchemaUnexpectedFallback }
        /\ pfail[r].stage = "generate_sql_query" => ~Invoked(r, "execute")

\* the response is the generated SQL followed by a failure notice
SqlThenNotice(r) ==
    \E notice \in { ExecutionFailedNotice, UnexpectedExecutionNotice } :
        presponse[r] = SqlFollowedBy(psql[r], notice)

C11_CloseReleasesAndIsIdempotent ==
    [][\A th \in DbThreads :
          /\ (tpc[th] = "close_finally" /\ tpc'[th] = "done")
                => /\ connection' = << >>
                   /\ cursor' = << >>
                   /\ tres'[th] = DbReturnedNone
          /\ (/\ tpc[th] \in { "closing", "close_finally" }
              /\ tpc'[th] # tpc[th]
              /\ connection = << >>
              /\ cursor = << >>)
                => /\ connection' = << >>
                   /\ cursor' = << >>
                   /\ openConns' = openConns
                   /\ closedCursors' = closedCursors
                   /\ connectCount' = connectCount
                   /\ tres'[th].kind # "raise"]_vars

\* two close calls have returned, one of them on the only connection ever
\* opened, whose close raised (it is still open), the other with nothing held
C11_Witness ==
    /\ connectCount = 1
    /\ openConns = { 1 }
    /\ connection = << >>
    /\ cursor = << >>
    /\ \A th \in DbThreads : th <= 2 => (tpc[th] = "done" /\ tres[th] = DbReturnedNone)

(***************************************************************************)
(* C12: with execute_queries disabled every execute call returns, for its  *)
(* SQL text, the result with that SQL, no rows, row_count 0 and            *)
(* cached = false at once, and no connection or cursor is ever opened or   *)
(* held.                                                                   *)
(***************************************************************************)
C12_DisabledExecuteIsPreview ==
    ~execute_queries =>
        /\ connection = << >>
        /\ cursor = << >>
        /\ openConns = {}
        /\ connectCount = 0
        /\ \A th \in DbThreads :
              /\ tpc[th] \in { "idle", "done", "close", "closing", "close_finally" }
              /\ (tpc[th] = "done" /\ tsql[th] # "")
                    => tres[th] = [kind |-> "return", exc |-> NoException,
                                   sql |-> tsql[th], rows |-> << >>, row_count |-> 0,
                                   cached |-> FALSE]

\* with execution disabled, two execute calls on different SQL texts have returned
C12_Witness ==
    /\ ~execute_queries
    /\ \E th, other \in DbThreads :
          /\ tpc[th] = "done" /\ tpc[other] = "done"
          /\ tsql[th] = "SELECT 1" /\ tsql[other] = "DROP TABLE t"
          /\ tres[th].sql = "SELECT 1" /\ tres[other].sql = "DROP TABLE t"

(***************************************************************************)
(* Claims about TriageService.classify_query and the routing of process    *)
(* (checked under SpecProc).                                               *)
(***************************************************************************)
\* some keyword occurs in the text when upper-case letters are read as their
\* lower-case ones
ContainsGreeting(user_query) ==
    \E keyword \in GREETING_KEYWORDS :
        \E offset \in 0..(Len(user_query) - Len(keyword)) :
            \A j \in 1..Len(keyword) :
                \/ user_query[offset + j] = keyword[j]
                \/ \E k \in DOMAIN UpperLetters :
                      /\ UpperLetters[k] = user_query[offset + j]
                      /\ LowerLetters[k] = keyword[j]

\* C13: with the TriageService, a request whose lower-cased text contains a
\* greeting keyword is classified GREETING and no remote classification call
\* is ever issued for it.
C13_GreetingShortcut ==
    \A r \in Requests :
        (/\ triage_service = TheTriageService
         /\ ppc[r] # "idle"
         /\ ContainsGreeting(puser_query[r]))
            => /\ premote[r] = "none"
               /\ ppc[r] # "classify" => pcategory[r] = "GREETING"

\* the request "oh HEY" has been classified GREETING without a remote call
\* and process awaits the conversational answer
C13_Witness ==
    \E r \in Requests :
        /\ triage_service = TheTriageService
        /\ puser_query[r] = << "o", "h", " ", "H", "E", "Y" >>
        /\ pcategory[r] = "GREETING"
        /\ premote[r] = "none"
        /\ ppc[r] = "general"

\* the reply, trimmed and upper-cased, is none of the four labels
Unrecognised(content) ==
    LET text == IF content.is_none THEN << >> ELSE content.text
        normalised == str_upper(str_strip(text))
    IN  \A category \in Categories : LabelText[category] # normalised

\* C14: a classifier reply that, trimmed and upper-cased, is not one of the
\* four labels (an empty or missing reply included) makes classify_query
\* return DATA_QUESTION, and process sends every category that is not
\* OUT_OF_SCOPE, GREETING or GENERAL_QUESTION - DATA_QUESTION and any label
\* outside the fixed set - down the data-question path, starting with
\* get_schema.
C14_UnknownLabelIsDataQuestion ==
    \A r \in Requests :
        /\ (ppc[r] = "classified" /\ Unrecognised(preply[r][1]))
              => pcategory[r] = "DATA_QUESTION"
        /\ (/\ pcategory[r] \notin { "", "OUT_OF_SCOPE", "GREETING", "GENERAL_QUESTION" }
            /\ ppc[r] # "classified")
              => /\ Len(pcalls[r]) >= 2
                 /\ pcalls[r] = SubSeq(DataPathStages, 1, Len(pcalls[r]))

\* one request's missing reply has just been classified DATA_QUESTION, and
\* another request classified DATA_QUESTION from a remote reply is on the
\* data path, awaiting get_schema
C14_Witness ==
    \E r, q \in Requests :
        /\ ppc[r] = "classified"
        /\ preply[r] = << Content(TRUE, << >>) >>
        /\ pcategory[r] = "DATA_QUESTION"
        /\ ppc[q] = "schema"
        /\ premote[q] = "replied"
        /\ pcategory[q] = "DATA_QUESTION"

\* C15: when the remote classification call fails, classify_query raises
\* ClassificationError, and whenever classify_query raises
\* ClassificationError process returns the rephrase fallback having invoked
\* no other stage.
C15_ClassificationFailureFallback ==
    \A r \in Requests :
        /\ premote[r] = "failed"
              => pfail[r] = Failure("classify_query", ClassificationError)
        /\ pfail[r] = Failure("classify_query", ClassificationError)
              => /\ ppc[r] = "returned"
                 /\ presponse[r] = RephraseFallback
                 /\ pexc[r] = NoException
                 /\ pcalls[r] = << "classify_query" >>

\* the remote call of a request has failed and process has returned the
\* rephrase fallback
C15_Witness ==
    \E r \in Requests :
        /\ premote[r] = "failed"
        /\ ppc[r] = "returned"
        /\ presponse[r] = RephraseFallback

\* C16: a request classified OUT_OF_SCOPE is answered at once with the
\* scope-limitation message; classify_query is the only call process made.
C16_OutOfScopeReturnsAtOnce ==
    \A r \in Requests :
        (pcategory[r] = "OUT_OF_SCOPE" /\ ppc[r] # "classified")
            => /\ ppc[r] = "returned"
               /\ presponse[r] = OutOfScopeMessage
               /\ pexc[r] = NoException
               /\ pcalls[r] = << "classify_query" >>

\* the TriageService has classified a request OUT_OF_SCOPE from the remote
\* reply and process has returned the scope-limitation message
C16_Witness ==
    \E r \in Requests :
        /\ pcategory[r] = "OUT_OF_SCOPE"
        /\ premote[r] = "replied"
        /\ ppc[r] = "returned"
        /\ presponse[r] = OutOfScopeMessage

\* C17: a request classified GREETING or GENERAL_QUESTION is handed to
\* answer_general_question and to no data-path stage; process returns the
\* answer's text, or the apologetic fallback whenever that call fails.
C17_GeneralBranchAnswersOrFallsBack ==
    \A r \in Requests :
        (pcategory[r] \in { "GREETING", "GENERAL_QUESTION" } /\ ppc[r] # "classified")
            => /\ pcalls[r] = << "classify_query", "answer_general_question" >>
               /\ pfail[r].stage = "answer_general_question"
                     => (ppc[r] = "returned" /\ presponse[r] = AnswerFallback)
               /\ (ppc[r] = "returned" /\ pfail[r] = NoFailure)
                     => \E text \in AnswerTexts : presponse[r] = << Text(text) >>

Min(a, b) == IF a <= b THEN a ELSE b

\* C18: the response to a successful execution with at least one row holds
\* the SQL, then exactly min(len(rows), max_results_display) numbered rows:
\* the first rows of the result in order, numbered 1, 2, ...; the note
\* "... and N more row(s)." is there exactly when row_count exceeds the number
\* of rows shown, after the rows, with N = row_count - rows shown.
C18_PreviewRowsAndRemainder ==
    \A r \in Requests :
        (ppc[r] = "returned" /\ presult[r].kind = "return" /\ presult[r].rows # << >>)
            => LET rows == presult[r].rows
                   response == presponse[r]
                   shown == Min(Len(rows), max_results_display)
                   sqlAt == { i \in DOMAIN response : response[i] = Text(psql[r]) }
                   numbered == { i \in DOMAIN response : response[i].text = "idx. row" }
                   notes == { i \in DOMAIN response :
                                response[i].text = "... and n more row(s)." }
               IN  /\ sqlAt # {}
                   /\ Cardinality(numbered) = shown
                   /\ \A i \in numbered :
                         /\ \A k \in sqlAt : k < i
                         /\ Cardinality({ j \in numbered : j <= i }) = response[i].n
                         /\ response[i].row = rows[response[i].n]
                   /\ (notes # {}) <=> (presult[r].row_count > shown)
                   /\ Cardinality(notes) <= 1
                   /\ \A i \in notes :
                         /\ response[i].n = presult[r].row_count - shown
                         /\ \A j \in numbered : j < i

\* with a display limit of 1, a result of two rows reported as three has
\* been formatted: one row shown and a note of two more
C18_Witness ==
    \E r \in Requests :
        /\ ppc[r] = "returned"
        /\ max_results_display = 1
        /\ presult[r].rows = AllRows
        /\ presult[r].row_count = Len(AllRows) + 1
        /\ presponse[r][7] = Line("idx. row", 1, AllRows[1])
        /\ presponse[r][Len(presponse[r])] = Line("... and n more row(s).", Len(AllRows), "")

(***************************************************************************)
(* Claims about AIService._clean_sql_query (checked under SpecClean).      *)
(***************************************************************************)
\* the text is what the claim calls a SQL text with no fence markers and no
\* trailing terminator
PlainSql(sql) == ~str_contains(Fence, sql) /\ ~str_endswith(sql, Terminator)

\* C19: for every SQL text s with no fence markers and no trailing
\* terminator, _clean_sql_query returns exactly s for s itself and for s
\* wrapped in code fences and/or followed by one ';'.
C19_SanitizeRoundTrip ==
    (sanitize_output # << >> /\ PlainSql(sanitize_sql))
        => sanitize_output[1] = sanitize_sql

\* the presentations for which the round trip holds: a ';' after the closing
\* fence only when the fence is on s's own line, and an untagged opening fence
\* directly before s only when s does not begin with "sql"
RoundTripForm(form, sql) ==
    /\ form.terminator = "outside" => ~form.own_lines
    /\ (form.fenced /\ ~form.tagged /\ ~form.own_lines) => ~str_startswith(sql, SqlTag)

\* C19 as amended: for every SQL text s with no fence markers, no trailing
\* terminator and no leading or trailing whitespace, _clean_sql_query returns
\* exactly s for s itself, for s followed by one ';', and for either of them
\* inside code fences (tagged sql or not, on lines of their own or not);
\* also for the fenced s followed by a ';' after the closing fence when that
\* fence is on s's own line.  An untagged opening fence directly before an s
\* that begins with "sql" is excluded.
C19_SanitizeRoundTripTrimmed ==
    (/\ sanitize_output # << >>
     /\ PlainSql(sanitize_sql)
     /\ str_strip(sanitize_sql) = sanitize_sql
     /\ RoundTripForm(sanitize_form[1], sanitize_sql))
        => sanitize_output[1] = sanitize_sql

\* a SQL text with an inner blank, presented in ```sql fences on their own
\* lines with a ';' after it, has been sanitized back to itself
C19_Witness ==
    /\ sanitize_form = << WrapForm(TRUE, TRUE, TRUE, "inside") >>
    /\ sanitize_sql = << "s", " ", "q" >>
    /\ sanitize_input = Fence \o SqlTag \o Newline \o sanitize_sql \o Terminator
                        \o Newline \o Fence
    /\ sanitize_output = << sanitize_sql >>

(***************************************************************************)
(* Claims about AIService._render_schema (checked under SpecRender).       *)
(***************************************************************************)
\* the k-th smallest element of a set of numbers
NthSmallest(S, k) == CHOOSE x \in S : Cardinality({ y \in S : y < x }) = k - 1

\* C20: in the rendered schema every table has its block; in it every column
\* of the table appears exactly once: a column with a non-empty formula as
\* "label := formula" under Calculated Metrics and not under Base Columns, a
\* column with an empty or absent formula as "label -> name (type)" under
\* Base Columns and not under Calculated Metrics; label is the friendly name
\* when there is one and the physical name otherwise.
C20_ColumnsRenderedByKind ==
    render_output # << >> =>
        LET out == render_output[1]
            tableAt == { i \in DOMAIN out : out[i].template = "Table: {table_name}" }
        IN  /\ Cardinality(tableAt) = Len(render_schema)
            /\ \A k \in 1..Len(render_schema) :
                  LET table == render_schema[k]
                      start == NthSmallest(tableAt, k)
                      stop == IF k < Len(render_schema)
                              THEN NthSmallest(tableAt, k + 1) - 1 ELSE Len(out)
                      baseAt == { i \in start..stop : out[i].template = "  Base Columns:" }
                      metricsAt ==
                          { i \in start..stop : out[i].template = "  Calculated Metrics:" }
                      entryAt == { i \in start..stop : out[i].entry # NoEntry }
                      UnderBase(i) ==
                          \E h \in baseAt : h < i /\ \A m \in metricsAt : m < h \/ i < m
                      UnderMetrics(i) ==
                          \E m \in metricsAt : m < i /\ \A h \in baseAt : h < m \/ i < h
                      Rendered(column, i) ==
                          LET entry == out[i].entry
                              friendly == column.field_name \notin { "", Absent }
                          IN  /\ entry.label = IF friendly THEN column.field_name
                                               ELSE column.name
                              /\ IF column.formula \notin { "", Absent }
                                 THEN /\ entry.template
                                           = "{label} := {formula}{description_part}"
                                      /\ entry.formula = column.formula
                                      /\ UnderMetrics(i) /\ ~UnderBase(i)
                                 ELSE /\ entry.template
                                           = "{label} -> {name} ({type}){description_part}"
                                      /\ entry.name = column.name
                                      /\ entry.type = column.type
                                      /\ UnderBase(i) /\ ~UnderMetrics(i)
                  IN  /\ out[start].table_name = table.name
                      /\ Cardinality(entryAt) = Len(table.columns)
                      /\ \E place \in [ 1..Len(table.columns) -> entryAt ] :
                            /\ \A c, d \in 1..Len(table.columns) :
                                  place[c] = place[d] => c = d
                            /\ \A c \in 1..Len(table.columns) :
                                  Rendered(table.columns[c], place[c])

\* a catalog of two tables has been rendered, the first with a calculated
\* column and a column whose formula is the empty string
C20_Witness ==
    /\ render_output # << >>
    /\ Len(render_schema) = 2
    /\ Len(render_schema[1].columns) = 2
    /\ render_schema[1].columns[1].formula = "count(c)"
    /\ render_schema[1].columns[2].formula = ""
    /\ render_schema[1].columns[2].field_name = "friendly"
    /\ Len(render_output[1]) = 9

(***************************************************************************)
(* C21: every malformed or missing schema source (missing file,            *)
(* unparsable content, a top level that is not a mapping, a table entry    *)
(* that is not a mapping) makes get_schema fail with SchemaLoadError and   *)
(* no other exception type, and the load is not retried within the call:   *)
(* every failed get_schema call has failed with SchemaLoadError, and there *)
(* are never more loads than calls.                                        *)
(***************************************************************************)
C21_MalformedSourceIsSchemaLoadError ==
    /\ \A t \in Tasks :
          (scall[t] = "get_schema" /\ sres[t].kind = "raise")
              => sres[t].exc = SchemaLoadError
    /\ loadCount <= callCount

(***************************************************************************)
(* Claims about the TTL cache (checked under SpecCache).                   *)
(***************************************************************************)

(***************************************************************************)
(* C22: get(key) never returns the value of an entry whose expiry deadline *)
(* has been reached: such a get returns None and removes the entry from    *)
(* the store; and an entry, expired or not, stays in the store unchanged   *)
(* until a get, set or delete of its key or a clear touches it (the        *)
(* passing of time alone removes nothing).                                 *)
(***************************************************************************)
C22_ExpiredEntriesLazilyEvicted ==
    [][\A key \in CacheKeys :
          /\ (/\ CacheGet(key)
              /\ cache_store[key] # << >>
              /\ cache_store[key][1].expires_at # << >>
              /\ cache_now >= cache_store[key][1].expires_at[1])
                => /\ cache_get'[1].value = << >>
                   /\ cache_store'[key] = << >>
          /\ (cache_store[key] # << >> /\ cache_store'[key] # cache_store[key])
                => \/ CacheGet(key)
                   \/ CacheDelete(key)
                   \/ CacheClear
                   \/ \E value \in CacheValues, ttl_seconds \in TtlSeconds :
                         CacheSet(key, value, ttl_seconds)]_vars

\* a get has found an entry at its deadline, returned None and removed it,
\* while another entry, past its deadline, is still in the store
C22_Witness ==
    /\ cache_get # << >>
    /\ cache_get[1].entry # << >>
    /\ cache_get[1].entry[1].expires_at = << cache_get[1].time >>
    /\ cache_get[1].value = << >>
    /\ cache_store[cache_get[1].key] = << >>
    /\ \E other \in CacheKeys :
          /\ cache_store[other] # << >>
          /\ cache_store[other][1].expires_at # << >>
          /\ cache_store[other][1].expires_at[1] < cache_now

(***************************************************************************)
(* Claims about the models (checked under SpecResult and SpecCatalog).     *)
(***************************************************************************)

(***************************************************************************)
(* C23: a QueryResult built without an explicit row_count has row_count    *)
(* equal to len(rows), and a QueryResult built with an explicitly supplied *)
(* row_count (including 0) keeps the supplied value.                       *)
(***************************************************************************)
C23_RowCountDefaultsToLenRows ==
    result_built # << >> =>
        IF result_row_count = << >>
        THEN result_built[1].row_count = Len(result_rows)
        ELSE result_built[1].row_count = result_row_count[1]

(***************************************************************************)
(* C29: get_table(n) returns the table whenever n equals the name of a     *)
(* stored table up to letter case: it returns a table whose name equals n  *)
(* up to case.                                                             *)
(***************************************************************************)
C29_GetTableIgnoresCase ==
    catalog_lookup # << >> =>
        LET call == catalog_lookup[1]
        IN  (\E stored \in DOMAIN call.tables : str_lower(stored) = str_lower(call.name))
                => /\ call.table # << >>
                   /\ str_lower(call.table[1].name) = str_lower(call.name)

(***************************************************************************)
(* Claims about the CLI commands and the container (checked under SpecCli).*)
(***************************************************************************)

(***************************************************************************)
(* C24: each CLI command (interactive, query, health) exits with code 1    *)
(* when configuration loading fails and with code 0 in every other case,   *)
(* including when the schema load or the request itself fails.             *)
(***************************************************************************)
C24_ExitCodeOneOnlyOnConfigFailure ==
    cli_exit # << >> => cli_exit = << IF cli_config = "failed" THEN 1 ELSE 0 >>

(***************************************************************************)
(* C27: lifespan always hands the query processor to its body, even when   *)
(* the start-up schema pre-warm fails with any exception, and always       *)
(* closes the database when the body ends, whether the body returns        *)
(* normally or raises: once the pre-warm has ended, however it ended, the  *)
(* processor is about to be or has been handed over; database.close() is   *)
(* not called while the body runs; and once the body has ended and         *)
(* lifespan has been left, close() has run once and the DatabaseManager    *)
(* holds no connection.                                                    *)
(***************************************************************************)
C27_LifespanYieldsAndCloses ==
    /\ cli_prewarm # "none" => (cli_pc = "yield" \/ cli_yielded)
    /\ (cli_yielded /\ cli_pc = "body") => cli_closes = 0
    /\ (cli_yielded /\ cli_pc \in { "left_run", "exited" })
          => /\ cli_body # "none"
             /\ cli_closes = 1
             /\ ~cli_held

\* the pre-warm failed on a table entry that is not a mapping, the body got
\* the processor all the same and raised, and the database has been closed
C27_Witness ==
    /\ cli_prewarm = AttributeError
    /\ cli_yielded
    /\ cli_body = IndexError
    /\ cli_pc = "left_run"
    /\ cli_raised = IndexError
    /\ cli_closes = 1
    /\ ~cli_held

(***************************************************************************)
(* Claims about the sessions (checked under SpecSess).                     *)
(***************************************************************************)

(***************************************************************************)
(* C25: only one interactive session runs at a time: under any             *)
(* interleaving of start_new_session and stop_current_session calls, at    *)
(* most one InteractiveSession is in its input/process loop, and a session *)
(* that has been stopped or replaced sends no further request to the query *)
(* processor.                                                              *)
(***************************************************************************)
C25_OneSessionAtATime ==
    [][/\ Cardinality({ t \in SessionTasks : sess_pc[t] \in InLoop }) <= 1
       /\ \A t \in SessionTasks :
             (sess_pc[t] = "input" /\ sess_pc'[t] = "process")
                 => session_active[sess_of[t]]]_vars

(***************************************************************************)
(* Claims about one call of the pipeline (checked under SpecOneCall and    *)
(* SpecProc).                                                              *)
(***************************************************************************)

(***************************************************************************)
(* C26: no stage is retried: within one process call classification,       *)
(* schema retrieval, SQL generation and execution are each invoked at most *)
(* once, and within one execute call the SQL is sent to the engine at most *)
(* once, whatever failures occur.                                          *)
(***************************************************************************)
C26_NoStageRetried ==
    /\ \A r \in Requests :
          \A i, j \in DOMAIN pcalls[r] : pcalls[r][i] = pcalls[r][j] => i = j
    /\ \A th \in DbThreads : tsent[th] <= 1

\* the process call has ended on a failed execution after invoking every
\* stage once, and an execute call has ended on a failure of the engine
\* after sending its SQL once
C26_Witness ==
    /\ ppc[1] = "returned"
    /\ pfail[1].stage = "execute"
    /\ Len(pcalls[1]) = 4
    /\ tpc[1] = "done"
    /\ tres[1].kind = "raise"
    /\ tcause[1] = "engine"
    /\ tsent[1] = 1

(***************************************************************************)
(* C28: when execution succeeds with an empty row list (the result of a    *)
(* zero-column statement or of an execution-disabled preview, or any other *)
(* result without rows, whatever row_count it reports), the response is    *)
(* the generated SQL followed by the 'No results were returned.' message   *)
(* and contains no results header, no numbered row and no 'more row(s)'    *)
(* note.                                                                   *)
(***************************************************************************)
C28_EmptyResultMessage ==
    \A r \in Requests :
        (ppc[r] = "returned" /\ presult[r].kind = "return" /\ presult[r].rows = << >>)
            => /\ presponse[r] = SqlFollowedBy(psql[r], NoResultsNotice)
               /\ \A i \in DOMAIN presponse[r] :
                     presponse[r][i].text \notin
                         { "Results (n rows):", "Results (n row):", "idx. row",
                           "... and n more row(s)." }

\* the responses to the result of a preview or of a zero-column statement
\* (no rows, row_count 0) and to a result without rows that reports rows
C28_Witness ==
    \E r, q \in Requests :
        /\ ppc[r] = "returned"
        /\ presult[r] = QueryResult(psql[r], << >>, 0, FALSE)
        /\ presponse[r][Len(presponse[r])] = NoResultsNotice
        /\ ppc[q] = "returned"
        /\ presult[q].kind = "return"
        /\ presult[q].rows = << >>
        /\ presult[q].row_count > 0
        /\ presponse[q][Len(presponse[q])] = NoResultsNotice

(***************************************************************************)
(* Claims about the connection lifecycle (checked under SpecDb), continued.*)
(***************************************************************************)

(***************************************************************************)
(* C30: in every state reached between operations of the executor (no      *)
(* execute or close call is in progress), the connection and the cursor    *)
(* are either both held or both absent; in particular a failure while      *)
(* creating the cursor does not leave a connection held without a cursor.  *)
(***************************************************************************)
C30_ConnectionAndCursorPaired ==
    (\A th \in DbThreads : tpc[th] \in { "idle", "done" })
        => ((connection = << >>) <=> (cursor = << >>))

(***************************************************************************)
(* C31: the connection lifecycle is re-openable.  A connection is opened   *)
(* lazily, only inside an execute call that finds no pair held; an execute *)
(* call that finds nothing held (the state every close leaves) either      *)
(* fails without sending its query or establishes a connection and cursor  *)
(* that were never handed out before; and a query is always started on the *)
(* cursor held now, which belongs to the most recently opened connection   *)
(* and is not a cursor that a finished close has closed and released.      *)
(***************************************************************************)
C31_ReopenAfterClose ==
    [][/\ connectCount' # connectCount
            => \E th \in DbThreads :
                  /\ tpc[th] = "ensure_locked"
                  /\ tpc'[th] # "ensure_locked"
                  /\ (connection = << >> \/ cursor = << >>)
       /\ \A th \in DbThreads :
            /\ (/\ tpc[th] = "ensure_locked"
                /\ tpc'[th] # "ensure_locked"
                /\ connection = << >>
                /\ cursor = << >>)
                  => \/ /\ tpc'[th] = "done"
                        /\ tres'[th].kind = "raise"
                        /\ tsent'[th] = 0
                        /\ cursor' = << >>
                     \/ /\ tpc'[th] = "execute"
                        /\ connection' = cursor'
                        /\ cursor' # << >>
                        /\ cursor'[1] \notin 1..connectCount
                        /\ cursor'[1] \notin closedCursors
            /\ (tpc[th] = "execute" /\ tpc'[th] = "executing")
                  => /\ cursor # << >>
                     /\ using'[th] = cursor
                     /\ connection = cursor
                     /\ cursor[1] = connectCount
                     /\ (\A b \in DbThreads : ~InClose(b))
                           => cursor[1] \notin closedCursors]_vars

\* a close has closed and released the first cursor, and a later execute
\* call is running its query on the cursor of the second connection
C31_Witness ==
    /\ closedCursors = { 1 }
    /\ connectCount = 2
    /\ connection = << 2 >>
    /\ cursor = << 2 >>
    /\ \E th \in DbThreads :
          /\ tpc[th] = "executing"
          /\ using[th] = << 2 >>
          /\ tsent[th] = 1
    /\ \A b \in DbThreads : ~InClose(b)

(***************************************************************************)
(* Claims about the sessions (checked under SpecSess), continued.          *)
(***************************************************************************)

(***************************************************************************)
(* C32: is_session_active() is true in every state in which a session      *)
(* started by start_new_session is still running its loop (its flag is set *)
(* and its task is inside the loop) and false when no session is in its    *)
(* loop; and when the start() of an older, replaced session ends, the      *)
(* record of the newer session is left as it is.                           *)
(***************************************************************************)
C32_IsSessionActiveTracksRunning ==
    [][/\ (\E t \in SessionTasks : sess_pc[t] \in InLoop /\ session_active[sess_of[t]])
            => is_session_active
       /\ (\A t \in SessionTasks : sess_pc[t] \notin InLoop) => ~is_session_active
       /\ \A t \in SessionTasks :
             (/\ sess_pc[t] \in InLoop
              /\ sess_pc'[t] = "idle"
              /\ current_session # << >>
              /\ current_session # << sess_of[t] >>)
                 => current_session' = current_session]_vars

(***************************************************************************)
(* Claims about the TTL cache (checked under SpecCache), continued.        *)
(***************************************************************************)

(***************************************************************************)
(* C33: an entry stored by set(key, value, ttl_seconds = t) with an        *)
(* explicit integer t >= 0 is expired at every time from the time of the   *)
(* set plus t on, whatever default_ttl is; only ttl_seconds = None gives   *)
(* the entry the deadline computed from default_ttl.                       *)
(***************************************************************************)
C33_ExplicitTtlOverridesDefault ==
    [][\A key \in CacheKeys, value \in CacheValues :
          /\ \A t \in 0..MaxTtl :
                CacheSet(key, value, << t >>)
                   => /\ cache_store'[key] # << >>
                      /\ cache_store'[key][1].value = value
                      /\ \A time \in (cache_now + t)..(MaxTime + MaxTtl) :
                            is_expired(cache_store'[key][1], time)
          /\ CacheSet(key, value, << >>)
                => cache_store'[key]
                      = << CacheEntry(value, _compute_expiry(cache_default_ttl,
                                                             cache_now)) >>]_vars

====
